---- MODULE Spec2Model ----
(***************************************************************************)
(* Sync engine of proton-drive-sync: the durable job queue, the bounded    *)
(* task pool of the processor and the engine's start/stop/pause control.   *)
(*                                                                         *)
(* The processor (processor.ts) and the engine (engine.ts, start.ts) are   *)
(* translated from the source.  queue.ts, flags.ts, constants.ts and the   *)
(* dispatch of registerSignalHandler are not part of the source tree; they *)
(* are modelled from sections 4.1, 4.3, 4.4 and 5 of the specification.    *)
(* All runs are modelled with dryRun = false.                              *)
(***************************************************************************)
EXTENDS Integers, Sequences, FiniteSets, Bags, TLC

\* ------------------------------------------------------------------ bounds
MaxJobs == 2
MaxTasks == 2
MaxEvents == 2
MaxDirChanges == 1
MaxK == 2
MaxNRetries == 2
MaxDelay == 1
MaxExecJobs == 2
MaxFailed == 7
LocalBytes == 2
LocalMtime == 1

Paths == {"a", "b"}

\* --------------------------------------------------------------- constants
DEFAULT_SYNC_CONCURRENCY == 8
REUPLOAD_DELETE_RECREATE_THRESHOLD == 2

JobStates == {"PENDING", "PROCESSING", "SYNCED", "BLOCKED"}
FileEventTypes == {"CREATE", "UPDATE", "DELETE"}
SyncEventType == FileEventTypes \cup {"DELETE_AND_CREATE"}
ErrorCategory ==
  {"TRANSIENT_NETWORK", "RATE_LIMITED", "REUPLOAD_NEEDED", "CLIENT_STATE", "PERMANENT"}

VARIABLES
  jobs,            \* sync_jobs table: sequence of rows, index = id
  nodeMapping,     \* node_mapping table: set of localPaths that have a row
  tasks,           \* running processJob invocations: a bag of tasks
  activeTasks,     \* Map<jobId, Promise>, by its key set
  syncConcurrency, \* module variable of the processor
  cfgK,            \* sync_concurrency of the configuration file
  proc,            \* "down" | "exited" | "setup" | "watch" | "scan" | "drain"
  drainPc,         \* drainQueue: "loop" | "await"
  totalChanges,    \* runOneShotSync: did queryAllChanges report a change
  paused,          \* pause flag read by isPaused()
  nEvents,         \* number of file changes delivered so far
  nDirChanges,     \* number of sync_dirs changes so far
  note,            \* ghost: "recovered" after a start that reset a row,
                   \* "skipped" after a tick that left a ready job unclaimed
  audit,           \* ghost: is the store kept, with completed and owed
  completed,       \* ghost: <<eventType, localPath>> of the completed jobs
  owed,            \* ghost: paths with an event no finished job has covered
  nodeRows,        \* node_mapping table: localPath -> nodeUid of its row
  fileHashes,      \* file_hashes table: localPath -> contentHash
  fileState,       \* file_state table: localPath -> changeToken
  remote,          \* the remote tree: remote path -> nodeUid of the node
  calls,           \* remote write calls issued by the running processJob
  dryRun,          \* the --dry-run option of the run
  mayFail,         \* error categories the remote side produces in this run
  nFailed,         \* ghost: failures of the job enqueued last
  disk,            \* the watched tree on disk: path -> stats of the entry
  changes,         \* the batch of FileChange the watcher delivered last
  digests,         \* claimed SHA-1 of the active revision of a remote file: nodeUid -> digest
  rowsAtStart,     \* ghost: the node_mapping table when the run began
  sigStore,        \* where the signal queue lives: "json" | "sqlite"
  signals,         \* the signal queue: sequence of [id, signal]
  nSent,           \* number of signals sent so far (the next row id)
  consumer,        \* per process: its consumeSignal call in progress
  consumed,        \* ghost: signal id -> number of calls that returned true
  authPc,          \* authenticateWithStatus: "start" | "try" | "wait" | "done" | "failed"
  attempt,         \* its loop variable
  lastError,       \* message of the error caught last, "none" before
  timers,          \* the delays of the setTimeout calls so far, in ms
  remaining,       \* seconds until the pending timer fires
  authStatus,      \* auth status sent to the dashboard last
  delPc,           \* deleteNode in steps: "idle" | "trash" | "delete" | "done"
  delPath,         \* its remotePath
  delError,        \* the error of its trash step, as the words of the message
  delResult,       \* the DeleteOperationResult it returned, "none" before
  trashBin,        \* nodeUids the remote side holds in the trash
  syncDirs,        \* config.sync_dirs: sequence of [source_path, remote_root], as strings
  routed,          \* localPath and remotePath of the job enqueued last
  excluded,        \* the paths that match an exclude pattern of the configuration
  folders,         \* remote folders: set of [uid, parent, name]
  walk,            \* per pool task: its ensureRemotePath call
  uniqueNames,     \* does the remote side refuse a second folder of a name in a parent
  stateFile,       \* state.json: the clock of each watched root and the signal queue
  appState,        \* appState of the running sync process, loaded at its start
  stopPc,          \* position of the stop command
  watchers,        \* the chokidar watchers ever created: call, directory, closed
  activeWatchers,  \* activeWatchers: directory -> watcher
  setups,          \* the calls of setupWatchSubscriptions and their positions
  lastConfig,      \* sync_dirs of the configuration in force
  startCmd,        \* the start command: position, handlers, pending cleanup, why it ends
  runLock,         \* the run lock is held
  exitCode,        \* exit code of the start command's process, -1 while it has none
  rawState,        \* state.json as JSON.parse reads it, with the fields it may lack
  loadedState      \* what loadState returned to the process that runs

vars == <<jobs, nodeMapping, tasks, activeTasks, syncConcurrency, cfgK, proc,
          drainPc, totalChanges, paused, nEvents, nDirChanges, note, audit,
          completed, owed, nodeRows, fileHashes, fileState, remote, calls,
          dryRun, mayFail, nFailed,
          disk,
          changes,
          digests,
          rowsAtStart, sigStore, signals, nSent, consumer, consumed,
          authPc, attempt, lastError, timers, remaining, authStatus,
          delPc, delPath, delError, delResult, trashBin,
          syncDirs, routed,
          excluded,
          folders, walk, uniqueNames,
          stateFile, appState, stopPc,
          watchers, activeWatchers, setups, lastConfig,
          startCmd, runLock, exitCode,
          rawState, loadedState>>

\* Groups of variables that most actions leave alone together.
config == <<cfgK, paused>>
counters == <<nEvents, nDirChanges>>
ghosts == <<audit, completed, owed>>
stores == <<nodeRows, fileHashes, fileState>>
\* The variables of the components beside the job processor.
sig == <<sigStore, signals, nSent, consumer, consumed>>
auth == <<authPc, attempt, lastError, timers, remaining, authStatus>>
del == <<delPc, delPath, delError, delResult, trashBin>>
route == <<syncDirs, routed>>
excl == <<excluded>>
mk == <<folders, walk, uniqueNames>>
sf == <<stateFile, appState, stopPc>>
ws == <<watchers, activeWatchers, setups, lastConfig>>
run == <<startCmd, runLock, exitCode>>
ld == <<rawState, loadedState>>
side == <<sig, auth, del, route, excl, mk, sf, ws, run, ld>>
notSig == <<auth, del, route, excl, mk, sf, ws, run, ld>>
notAuth == <<sig, del, route, excl, mk, sf, ws, run, ld>>
notDel == <<sig, auth, route, excl, mk, sf, ws, run, ld>>
notRoute == <<sig, auth, del, excl, mk, sf, ws, run, ld>>
notExcl == <<sig, auth, del, route, mk, sf, ws, run, ld>>
notMk == <<sig, auth, del, route, excl, sf, ws, run, ld>>
notSf == <<sig, auth, del, route, excl, mk, ws, run, ld>>
notWs == <<sig, auth, del, route, excl, mk, sf, run, ld>>
notRun == <<sig, auth, del, route, excl, mk, sf, ws, ld>>
notLd == <<sig, auth, del, route, excl, mk, sf, ws, run>>
aux == <<disk, changes, rowsAtStart, side>>
exec == <<stores, remote, digests, calls, dryRun, mayFail, nFailed, aux>>

\* A table without rows, as a function of its key.
NoRows == [p \in {} |-> "none"]

Min(a, b) == IF a <= b THEN a ELSE b
MinOf(S) == CHOOSE x \in S : \A y \in S : x <= y
Ids(js) == 1..Len(js)

\* -------------------------------------------------------------------------
\* Job queue (queue.ts; modelled from the specification, sections 3, 4.1,
\* 4.3 and 4.4).  A row's retryAt is kept relative to the clock: it is the
\* number of clock ticks until retryAt <= now holds, 0 meaning "ready".
\* -------------------------------------------------------------------------

NewJob(eventType, localPath, remotePath) ==
  [eventType |-> eventType, localPath |-> localPath, remotePath |-> remotePath,
   state |-> "PENDING", nRetries |-> 0, retryAt |-> 0, lastError |-> "none"]

\* Coalescing table of section 4.3, step 4; a pair the table does not list
\* keeps the type of the later event.
Coalesce(old, new) ==
  CASE new = "DELETE" -> "DELETE"
    [] old = "CREATE" /\ new = "UPDATE" -> "CREATE"
    [] old = "UPDATE" /\ new = "UPDATE" -> "UPDATE"
    [] old = "DELETE" /\ new = "CREATE" -> "DELETE_AND_CREATE"
    [] OTHER -> new

\* The non-SYNCED rows of a path, which an enqueue examines.
Existing(js, localPath) ==
  {i \in Ids(js) : js[i].localPath = localPath /\ js[i].state # "SYNCED"}

\* enqueue(job): merge into the existing non-SYNCED row of the path, or
\* insert; the resulting job is PENDING, ready now, with nRetries = 0.
enqueueJob(js, eventType, localPath, remotePath) ==
  IF Existing(js, localPath) # {}
  THEN LET i == MinOf(Existing(js, localPath)) IN
       [js EXCEPT ![i] = [@ EXCEPT !.eventType = Coalesce(@, eventType),
                                   !.remotePath = remotePath,
                                   !.state = "PENDING",
                                   !.retryAt = 0,
                                   !.nRetries = 0]]
  ELSE Append(js, NewJob(eventType, localPath, remotePath))

\* The rows next_ready() may claim.
ReadyJobs(js) == {i \in Ids(js) : js[i].state = "PENDING" /\ js[i].retryAt = 0}

\* next_ready(): id of the oldest PENDING row with retryAt <= now, or 0.
NextPendingId(js) == IF ReadyJobs(js) = {} THEN 0 ELSE MinOf(ReadyJobs(js))

\* ... which the same transaction sets to PROCESSING.
getNextPendingJob(js) ==
  IF NextPendingId(js) = 0 THEN js
  ELSE [js EXCEPT ![NextPendingId(js)].state = "PROCESSING"]

\* mark_synced(id): transition PROCESSING -> SYNCED.
markJobSynced(js, id) ==
  IF js[id].state = "PROCESSING" THEN [js EXCEPT ![id].state = "SYNCED"] ELSE js

\* setJobError(id, message): record lastError.
setJobError(js, id, err) == [js EXCEPT ![id].lastError = err]

\* mark_blocked(id, err): transition PROCESSING -> BLOCKED (terminal).
markJobBlocked(js, id, err) ==
  IF js[id].state = "PROCESSING"
  THEN [js EXCEPT ![id].state = "BLOCKED", ![id].lastError = err]
  ELSE js

\* Error classification table of section 4.4: max retries per class.
MaxRetriesIsInfinity(category) == category \in {"TRANSIENT_NETWORK", "RATE_LIMITED"}
MaxRetriesOf(category) ==
  CASE category = "REUPLOAD_NEEDED" -> 5
    [] category = "CLIENT_STATE" -> 3
    [] category = "PERMANENT" -> 0
    [] OTHER -> 0

\* Backoff of section 4.4 in clock ticks: exponential for TRANSIENT_NETWORK
\* and REUPLOAD_NEEDED, a fixed wait otherwise, cut off at MaxDelay.
RetryDelay(category, nRetries) ==
  IF category \in {"TRANSIENT_NETWORK", "REUPLOAD_NEEDED"}
  THEN Min(2 ^ nRetries, MaxDelay)
  ELSE MaxDelay

\* schedule_retry(id, nRetries, errorClass): PROCESSING -> PENDING with
\* nRetries incremented and retryAt set by the backoff table.
scheduleRetry(js, id, nRetries, category) ==
  IF js[id].state = "PROCESSING"
  THEN [js EXCEPT ![id].state = "PENDING",
                  ![id].nRetries = nRetries + 1,
                  ![id].retryAt = RetryDelay(category, nRetries)]
  ELSE js

\* Startup recovery of section 4.1, run by cleanupOrphanedJobs: every
\* PROCESSING row goes back to PENDING with retryAt = now.
cleanupOrphanedJobs(js) ==
  [i \in Ids(js) |->
     IF js[i].state = "PROCESSING"
     THEN [js[i] EXCEPT !.state = "PENDING", !.retryAt = 0]
     ELSE js[i]]

\* -------------------------------------------------------------------------
\* Processor (processor.ts)
\* -------------------------------------------------------------------------

\* activeTasks.set(jobId, promise) and activeTasks.delete(jobId) on the keys.
MapSet(m, k) == m \cup {k}
MapDelete(m, ks) == m \ ks

\* The pool as one value, so that the spawn loop can be iterated.
Pool(js, ts, at) ==
  [jobs |-> js, tasks |-> ts, activeTasks |-> at, thrown |-> {}, full |-> FALSE]

\* The number of tasks alive at once is a bound of the model, not of the
\* program.
RoomFor(ts) == BagCardinality(ts) < MaxTasks

\* processJob up to its first suspension: a job without remotePath throws
\* before the try block, so nothing records an outcome for it; any other
\* job becomes a running task.
NewTask(job, id) ==
  [id |-> id, eventType |-> job.eventType, localPath |-> job.localPath,
   nRetries |-> job.nRetries, pc |-> "run", fresh |-> audit]

\* Variant of SpawnOne that starts the next ready job without claiming it.
SpawnOneUnclaimed(st) ==
  LET id == NextPendingId(st.jobs)
      job == st.jobs[id]
  IN [jobs |-> st.jobs,
      tasks |-> st.tasks (+) SetToBag({NewTask(job, id)}),
      activeTasks |-> MapSet(st.activeTasks, id),
      thrown |-> st.thrown,
      full |-> st.full \/ ~RoomFor(st.tasks)]

\* One pass of the spawn loop: claim, start processJob, activeTasks.set.
SpawnOne(st) ==
  LET id == NextPendingId(st.jobs)
      job == st.jobs[id]
  IN [jobs |-> getNextPendingJob(st.jobs),
      tasks |-> IF job.remotePath
                THEN st.tasks (+) SetToBag({NewTask(job, id)})
                ELSE st.tasks,
      activeTasks |-> MapSet(st.activeTasks, id),
      thrown |-> IF job.remotePath THEN st.thrown ELSE st.thrown \cup {id},
      full |-> st.full \/ (job.remotePath /\ ~RoomFor(st.tasks))]

RECURSIVE SpawnLoop(_, _)
SpawnLoop(st, slots) ==
  IF slots <= 0 \/ NextPendingId(st.jobs) = 0
  THEN st
  ELSE SpawnLoop(SpawnOne(st), slots - 1)

AvailableSlots(k, at) == k - Cardinality(at)

processAvailableJobs(st, k) ==
  IF AvailableSlots(k, st.activeTasks) <= 0
  THEN st
  ELSE SpawnLoop(st, AvailableSlots(k, st.activeTasks))

\* The .finally callbacks of the tasks that threw at once run as microtasks
\* after the synchronous caller: activeTasks.delete(jobId).
SettleThrown(st) == [st EXCEPT !.activeTasks = MapDelete(@, st.thrown)]

\* Variant of ShouldBlock without the test for unlimited retries.
ShouldBlockFinite(nRetries, category) == nRetries >= MaxRetriesOf(category)

\* catch block of processJob: block, convert to DELETE_AND_CREATE, or retry.
ShouldBlock(nRetries, category) ==
  nRetries >= MaxRetriesOf(category) /\ ~MaxRetriesIsInfinity(category)

ShouldRecreate(nRetries, category) ==
  category = "REUPLOAD_NEEDED" /\ nRetries >= REUPLOAD_DELETE_RECREATE_THRESHOLD

\* Variant of processJobCatch that inserts the DELETE_AND_CREATE job as a
\* row of its own instead of handing it to enqueueJob.
processJobCatchInsert(js, t, category) ==
  IF ShouldBlock(t.nRetries, category)
  THEN markJobBlocked(setJobError(js, t.id, category), t.id, category)
  ELSE IF ShouldRecreate(t.nRetries, category)
  THEN Append(js, NewJob("DELETE_AND_CREATE", t.localPath, TRUE))
  ELSE scheduleRetry(setJobError(js, t.id, category), t.id, t.nRetries, category)

\* Variant of processJobCatch without the block branch.
processJobCatchRetry(js, t, category) ==
  IF ShouldRecreate(t.nRetries, category)
  THEN enqueueJob(js, "DELETE_AND_CREATE", t.localPath, TRUE)
  ELSE scheduleRetry(setJobError(js, t.id, category), t.id, t.nRetries, category)

processJobCatch(js, t, category) ==
  IF ShouldBlock(t.nRetries, category)
  THEN markJobBlocked(setJobError(js, t.id, category), t.id, category)
  ELSE IF ShouldRecreate(t.nRetries, category)
  THEN enqueueJob(js, "DELETE_AND_CREATE", t.localPath, TRUE)
  ELSE scheduleRetry(setJobError(js, t.id, category), t.id, t.nRetries, category)

\* Store effect of the completing transaction of each event type.
CompleteMapping(nm, t) ==
  IF t.eventType = "DELETE" THEN nm \ {t.localPath} ELSE nm \cup {t.localPath}

\* -------------------------------------------------------------------------
\* Engine (engine.ts) and start command (start.ts)
\* -------------------------------------------------------------------------

\* Variant of processLoop that does not read the pause flag.
processLoopUnpaused(st, k, isPaused) ==
  SettleThrown(processAvailableJobs(st, k))

\* processLoop: one tick of the watch-mode loop; the pause flag is read at
\* each tick and the pool is only filled when it is clear.
processLoop(st, k, isPaused) ==
  IF isPaused THEN st ELSE SettleThrown(processAvailableJobs(st, k))

\* The cleanup each run mode performs before anything is claimed.
runWatchModeCleanup(js) == cleanupOrphanedJobs(js)

\* Variant of runOneShotSyncCleanup that leaves the rows as they are.
runOneShotSyncNoCleanup(js) == js

runOneShotSyncCleanup(js) == cleanupOrphanedJobs(js)

\* The sync_dirs change handler of watch mode runs the same cleanup.
onSyncDirsChange(js) == cleanupOrphanedJobs(js)

\* Variant of handleFileChange that inserts the job as a new row instead of
\* handing it to enqueueJob.
handleFileChangeInsert(js, eventType, localPath) ==
  Append(js, NewJob(eventType, localPath, TRUE))

\* handleFileChange: CREATE, UPDATE or DELETE, always with a remotePath.
handleFileChange(js, eventType, localPath) ==
  enqueueJob(js, eventType, localPath, TRUE)

\* setSyncConcurrency(value): syncConcurrency = value.
setSyncConcurrency(value) == value

\* The failures the remote side is made to produce.
Failures == {"TRANSIENT_NETWORK", "REUPLOAD_NEEDED", "PERMANENT"}

\* A job left by an earlier version of the store, without remotePath.
LegacyJob == NewJob("CREATE", "a", FALSE)

\* The components beside the job processor at rest.
\* The processes that call consumeSignal: the daemon and the stop command.
Procs == {"daemon", "stop"}
SignalTags == {"stop", "pause"}
NoCall == [pc |-> "idle"]

\* The signal queue before any signal is sent.
InitSigQueue ==
  /\ signals = << >>
  /\ nSent = 0
  /\ consumer = [c \in Procs |-> NoCall]
  /\ consumed = NoRows

\* authenticateWithStatus has not been called.
InitAuth ==
  /\ authPc = "start"
  /\ attempt = 0
  /\ lastError = "none"
  /\ timers = << >>
  /\ remaining = 0
  /\ authStatus = "none"

\* The signal queue of an installation that keeps it in the signals table.
InitSig ==
  /\ sigStore = "sqlite"
  /\ InitSigQueue

\* No error: a message without words.
NoError == << >>

\* deleteNode has not been called.
InitDelCall ==
  /\ delPc = "idle"
  /\ delPath = << >>
  /\ delError = NoError
  /\ delResult = "none"
InitDel ==
  /\ InitDelCall
  /\ trashBin = {}

\* No configuration loaded, no change routed.
InitRoute ==
  /\ syncDirs = << >>
  /\ routed = [localPath |-> << >>, remotePath |-> << >>]

\* No exclusion pattern is configured.
InitExcl ==
  /\ excluded = {}

\* Two tasks of the pool that run processJob for CREATE jobs side by side.
PoolTasks == {"t1", "t2"}
NoWalk == [pc |-> "idle"]

\* An empty remote root and no ensureRemotePath call.
InitMk ==
  /\ folders = {}
  /\ walk = [j \in PoolTasks |-> NoWalk]
  /\ uniqueNames = FALSE

\* The watched roots, and the state before any clock was stored.
WatchRoots == {"/a", "/b"}
NoClocks == [r \in WatchRoots |-> 0]

\* No sync process runs: there is no appState.
NoState == [loaded |-> FALSE]

\* state.json of an installation at rest: no clock, no signal, no process.
InitSf ==
  /\ stateFile = [clocks |-> NoClocks, signals |-> << >>]
  /\ appState = NoState
  /\ stopPc = "idle"

\* No watcher yet: setupWatchSubscriptions has not been called.
InitWs ==
  /\ watchers = {}
  /\ activeWatchers = {}
  /\ setups = << >>
  /\ lastConfig = {}

\* The start command before it is run.  source is the form of the command:
\* "start.ts" (cleanup is synchronous, the handlers are registered after the
\* authentication) or "auth.ts" (cleanup is async and awaits stopDashboard,
\* the handlers are registered before the authentication).
NoStart ==
  [pc |-> "idle", source |-> "start.ts", watch |-> FALSE, handlers |-> FALSE,
   cleanup |-> "none", thenExit |-> -1, cause |-> "none", run |-> 0]

\* No start command runs and the run lock is free.
InitRun ==
  /\ startCmd = NoStart
  /\ runLock = FALSE
  /\ exitCode = -1

\* A state object: version and signals may be missing from a file written
\* before they were introduced.
StateObject(hasVersion, version, clocks, hasSignals, queue) ==
  [hasVersion |-> hasVersion, version |-> version, clocks |-> clocks,
   hasSignals |-> hasSignals, signals |-> queue]
NoFile == [exists |-> FALSE]
NotLoaded == [loaded |-> FALSE]

\* No state file has been read.
InitLd ==
  /\ rawState = NoFile
  /\ loadedState = NotLoaded

InitSide ==
  /\ InitSig
  /\ InitAuth
  /\ InitLd
  /\ InitRun
  /\ InitWs
  /\ InitSf
  /\ InitMk
  /\ InitExcl
  /\ InitRoute
  /\ InitDel

InitAux ==
  /\ disk = NoRows
  /\ changes = << >>
  /\ rowsAtStart = NoRows
  /\ InitSide

InitCore ==
  /\ InitAux
  /\ jobs \in {<< >>, <<LegacyJob>>}
  /\ nodeMapping = {}
  /\ completed = {}
  /\ owed = {}
  /\ tasks = EmptyBag
  /\ activeTasks = {}
  /\ syncConcurrency = DEFAULT_SYNC_CONCURRENCY
  /\ cfgK = MaxK
  /\ proc = "down"
  /\ drainPc = "loop"
  /\ totalChanges = FALSE
  /\ paused = FALSE
  /\ nEvents = 0
  /\ nDirChanges = 0
  /\ note = "none"
  /\ nodeRows = NoRows
  /\ fileHashes = NoRows
  /\ fileState = NoRows
  /\ remote = NoRows
  /\ digests = NoRows
  /\ calls = {}
  /\ dryRun = FALSE
  /\ mayFail = Failures
  /\ nFailed = 0

Init == InitCore /\ audit = FALSE

CurrentPool == Pool(jobs, tasks, activeTasks)

SetPool(st) ==
  /\ ~st.full
  /\ jobs' = st.jobs
  /\ tasks' = st.tasks
  /\ activeTasks' = st.activeTasks

Stopped == proc \in {"down", "exited"}

\* The process is gone, killed ("down") or by process.exit ("exited"): its
\* tasks and module variables go with it.
ProcessGone(how) ==
  /\ proc' = how
  /\ tasks' = EmptyBag
  /\ activeTasks' = {}
  /\ syncConcurrency' = DEFAULT_SYNC_CONCURRENCY
  /\ drainPc' = "loop"
  /\ totalChanges' = FALSE
  /\ note' = "none"

\* ghost: did the start find a row to reset.
Recovered(js) ==
  IF \E i \in Ids(js) : js[i].state = "PROCESSING" THEN "recovered" ELSE "none"

\* ghost: does a tick leave a job unclaimed that it had a slot for.
Skipped ==
  IF paused /\ NextPendingId(jobs) # 0
            /\ AvailableSlots(syncConcurrency, activeTasks) > 0
  THEN "skipped" ELSE "none"

\* runWatchMode up to the await of setupWatchSubscriptions.
StartWatch ==
  /\ Stopped
  /\ proc' = "setup"
  /\ syncConcurrency' = setSyncConcurrency(cfgK)
  /\ jobs' = runWatchModeCleanup(jobs)
  /\ note' = Recovered(jobs)
  /\ UNCHANGED <<exec, nodeMapping, tasks, activeTasks, drainPc, totalChanges,
                 config, counters, ghosts>>

\* startJobProcessorLoop: the loop starts with a first call of processLoop.
WatchReady ==
  /\ proc = "setup"
  /\ proc' = "watch"
  /\ SetPool(processLoop(CurrentPool, syncConcurrency, paused))
  /\ note' = Skipped
  /\ UNCHANGED <<exec, nodeMapping, syncConcurrency, drainPc, totalChanges, config,
                 counters, ghosts>>

\* The timer fires: processLoop runs again.
ProcessLoopTick ==
  /\ proc = "watch"
  /\ SetPool(processLoop(CurrentPool, syncConcurrency, paused))
  /\ note' = Skipped
  /\ UNCHANGED <<exec, nodeMapping, syncConcurrency, proc, drainPc, totalChanges,
                 config, counters, ghosts>>

\* runOneShotSync up to the await of queryAllChanges.
StartOneShot ==
  /\ Stopped
  /\ proc' = "scan"
  /\ totalChanges' = FALSE
  /\ jobs' = runOneShotSyncCleanup(jobs)
  /\ note' = Recovered(jobs)
  /\ UNCHANGED <<exec, nodeMapping, tasks, activeTasks, syncConcurrency, drainPc,
                 config, counters, ghosts>>

\* ghost: the tasks of a path no longer work on its latest event.
Stale(t) == [t EXCEPT !.fresh = FALSE]
Outdated(ts, localPath) ==
  LET Was(u) == IF u \in DOMAIN ts THEN ts[u] ELSE 0
      Hit(t) == t.localPath = localPath /\ t.fresh
  IN [u \in {IF Hit(t) THEN Stale(t) ELSE t : t \in DOMAIN ts} |->
        Was(u) + (IF u.localPath = localPath
                  THEN Was([u EXCEPT !.fresh = TRUE])
                  ELSE 0)]

\* The watcher (or the scan of one-shot mode) reports a change.
FileChange(eventType, localPath) ==
  /\ proc \in {"setup", "watch", "scan"}
  /\ nEvents < MaxEvents
  /\ Existing(jobs, localPath) # {} \/ Len(jobs) < MaxJobs
  /\ jobs' = handleFileChange(jobs, eventType, localPath)
  /\ owed' = IF audit THEN owed \cup {localPath} ELSE owed
  /\ tasks' = Outdated(tasks, localPath)
  /\ nEvents' = nEvents + 1
  /\ totalChanges' = IF proc = "scan" THEN TRUE ELSE totalChanges
  /\ UNCHANGED <<exec, nodeMapping, activeTasks, syncConcurrency, proc, drainPc,
                 config, nDirChanges, note, audit, completed>>

\* queryAllChanges returns: with no change runOneShotSync returns at once,
\* otherwise it enters drainQueue.
ScanDone ==
  /\ proc = "scan"
  /\ IF totalChanges
     THEN /\ proc' = "drain"
          /\ drainPc' = "loop"
          /\ note' = "none"
          /\ UNCHANGED <<tasks, activeTasks, syncConcurrency, totalChanges>>
     ELSE ProcessGone("exited")
  /\ UNCHANGED <<exec, jobs, nodeMapping, config, counters, ghosts>>

\* One pass of the drainQueue loop up to its await (or its break).
DrainFill(st) ==
  IF st.activeTasks = {} /\ NextPendingId(st.jobs) # 0
  THEN SpawnOne(st)
  ELSE st

DrainIter ==
  /\ proc = "drain"
  /\ drainPc = "loop"
  /\ LET st == DrainFill(processAvailableJobs(CurrentPool, syncConcurrency)) IN
       /\ ~st.full
       /\ jobs' = st.jobs
       /\ IF st.activeTasks = {} \/ st.thrown # {}
          THEN \* queue empty (break), or Promise.race rejects and the
               \* start command exits with code 1
               ProcessGone("exited")
          ELSE /\ tasks' = st.tasks
               /\ activeTasks' = st.activeTasks
               /\ drainPc' = "await"
               /\ UNCHANGED <<proc, syncConcurrency, totalChanges, note>>
  /\ UNCHANGED <<exec, nodeMapping, config, counters, ghosts>>

\* A task settles: .finally deletes the map entry of its job id, and a
\* drainQueue waiting in Promise.race resumes.
TaskSettles(t) ==
  /\ tasks' = tasks (-) SetToBag({t})
  /\ activeTasks' = MapDelete(activeTasks, {t.id})
  /\ drainPc' = "loop"

\* ghost: the event a task worked on is covered once its row is SYNCED or
\* BLOCKED.
Covered(t, js) ==
  IF t.fresh /\ js[t.id].state \in {"SYNCED", "BLOCKED"}
  THEN owed \ {t.localPath}
  ELSE owed

\* DELETE_AND_CREATE, steps 1 and 2: the old node is deleted remotely and
\* its mapping removed in a transaction of its own.
TaskDeleteStep(t) ==
  /\ t \in BagToSet(tasks)
  /\ t.eventType = "DELETE_AND_CREATE"
  /\ t.pc = "run"
  /\ nodeMapping' = IF audit THEN nodeMapping \ {t.localPath} ELSE nodeMapping
  /\ tasks' = (tasks (-) SetToBag({t})) (+) SetToBag({[t EXCEPT !.pc = "create"]})
  /\ UNCHANGED <<exec, jobs, activeTasks, syncConcurrency, proc, drainPc,
                 totalChanges, config, counters, note, ghosts>>

\* The remote operation succeeded: the completing transaction.
TaskSucceeds(t) ==
  /\ t \in BagToSet(tasks)
  /\ t.eventType = "DELETE_AND_CREATE" => t.pc = "create"
  /\ nodeMapping' = IF audit THEN CompleteMapping(nodeMapping, t) ELSE nodeMapping
  /\ completed' = IF audit
                  THEN completed \cup {<<t.eventType, t.localPath>>}
                  ELSE completed
  /\ jobs' = markJobSynced(jobs, t.id)
  /\ owed' = Covered(t, jobs')
  /\ TaskSettles(t)
  /\ UNCHANGED <<exec, syncConcurrency, proc, totalChanges, config, counters, note,
                 audit>>

\* The remote operation failed with an error of the given category.
TaskFails(t, category) ==
  /\ t \in BagToSet(tasks)
  /\ \/ ShouldBlock(t.nRetries, category)
     \/ /\ ShouldRecreate(t.nRetries, category)
        /\ Existing(jobs, t.localPath) # {} \/ Len(jobs) < MaxJobs
     \/ /\ ~ShouldRecreate(t.nRetries, category)
        /\ t.nRetries < MaxNRetries
  /\ jobs' = processJobCatch(jobs, t, category)
  /\ owed' = Covered(t, jobs')
  /\ TaskSettles(t)
  /\ UNCHANGED <<exec, nodeMapping, syncConcurrency, proc, totalChanges, config,
                 counters, note, audit, completed>>

\* The process dies (crash, SIGKILL, power loss).
Kill ==
  /\ ~Stopped
  /\ ProcessGone("down")
  /\ UNCHANGED <<exec, jobs, nodeMapping, config, counters, ghosts>>

\* The stop signal is dispatched: the handler of the start command runs
\* cleanup() and process.exit(0); the await in runWatchMode never resumes.
StopSignal ==
  /\ ~Stopped
  /\ ProcessGone("exited")
  /\ UNCHANGED <<exec, jobs, nodeMapping, config, counters, ghosts>>

\* sync_concurrency changes in the configuration; in watch mode the change
\* handler passes it to setSyncConcurrency.
ConfigChangeConcurrency(k) ==
  /\ k # cfgK
  /\ cfgK' = k
  /\ syncConcurrency' = IF proc = "watch" THEN setSyncConcurrency(k) ELSE syncConcurrency
  /\ UNCHANGED <<exec, jobs, nodeMapping, tasks, activeTasks, proc, drainPc,
                 totalChanges, paused, counters, note, ghosts>>

\* sync_dirs changes in the configuration while watch mode runs.
ConfigChangeSyncDirs ==
  /\ proc = "watch"
  /\ nDirChanges < MaxDirChanges
  /\ nDirChanges' = nDirChanges + 1
  /\ jobs' = onSyncDirsChange(jobs)
  /\ UNCHANGED <<exec, nodeMapping, tasks, activeTasks, syncConcurrency, proc,
                 drainPc, totalChanges, config, nEvents, note, ghosts>>

Pause ==
  /\ ~paused
  /\ paused' = TRUE
  /\ UNCHANGED <<exec, jobs, nodeMapping, tasks, activeTasks, syncConcurrency, cfgK,
                 proc, drainPc, totalChanges, counters, note, ghosts>>

Resume ==
  /\ paused
  /\ paused' = FALSE
  /\ note' = "none"
  /\ UNCHANGED <<exec, jobs, nodeMapping, tasks, activeTasks, syncConcurrency, cfgK,
                 proc, drainPc, totalChanges, counters, ghosts>>

\* Time passes: every retryAt in the future comes one tick closer.
ClockTick ==
  /\ \E i \in Ids(jobs) : jobs[i].retryAt > 0
  /\ jobs' = [i \in Ids(jobs) |->
                IF jobs[i].retryAt > 0
                THEN [jobs[i] EXCEPT !.retryAt = @ - 1]
                ELSE jobs[i]]
  /\ UNCHANGED <<exec, nodeMapping, tasks, activeTasks, syncConcurrency, proc,
                 drainPc, totalChanges, config, counters, note, ghosts>>

\* The queue, the processor and the run modes, without the operator.
Core ==
  \/ StartWatch
  \/ WatchReady
  \/ ProcessLoopTick
  \/ StartOneShot
  \/ \E e \in FileEventTypes, p \in Paths : FileChange(e, p)
  \/ ScanDone
  \/ DrainIter
  \/ \E t \in BagToSet(tasks) : TaskDeleteStep(t)
  \/ \E t \in BagToSet(tasks) : TaskSucceeds(t)
  \/ \E t \in BagToSet(tasks), c \in Failures : TaskFails(t, c)
  \/ Kill
  \/ StopSignal
  \/ ClockTick

\* ... with changes of sync_dirs.
Next == Core \/ ConfigChangeSyncDirs
Spec == Init /\ [][Next]_vars

\* ... with the operator pausing and resuming.
NextPause == Core \/ Pause \/ Resume
SpecPause == Init /\ [][NextPause]_vars

\* ... with changes of sync_concurrency.
NextConfig == Core \/ \E k \in 1..MaxK : ConfigChangeConcurrency(k)
SpecConfig == Init /\ [][NextConfig]_vars

\* ... with the store and its ghosts kept.
InitAudit == InitCore /\ audit = TRUE
SpecAudit == InitAudit /\ [][Core]_vars

\* -------------------------------------------------------------------------
\* Execution of one job (processJob per event kind, nodes.ts, hashes.ts,
\* delete.ts, create).  Paths are sequences of names; the remote path of a
\* job is its local path under the remote root, so both are written as the
\* same sequence.  rename.ts (relocateNode, getParentFolderUid) is not part
\* of the source tree and is modelled from sections 4.5 and 6 of the
\* specification.
\* -------------------------------------------------------------------------

DirPath == <<"d">>
FilePath == <<"d", "f">>
NoPath == << >>

\* The local tree: entries of a sync root are directories, entries below
\* them are files (statSync(localPath).isDirectory()).
IsDirectory(p) == Len(p) = 1

\* The directory a path lies in.
ParentOf(p) == SubSeq(p, 1, Len(p) - 1)

\* like(localPath, `${dirPath}/%`)
IsUnderPath(p, dirPath) ==
  Len(p) > Len(dirPath) /\ SubSeq(p, 1, Len(dirPath)) = dirPath

\* newDirPath + child.localPath.slice(oldDirPath.length)
RebasePath(p, oldDirPath, newDirPath) ==
  newDirPath \o SubSeq(p, Len(oldDirPath) + 1, Len(p))

\* parsePath(remotePath).parentParts, as the paths of the ancestor folders.
ParentPaths(rp) == {SubSeq(rp, 1, n) : n \in 1..(Len(rp) - 1)}

\* Rows of a table keyed by localPath.
Put(m, k, v) == [x \in DOMAIN m \cup {k} |-> IF x = k THEN v ELSE m[x]]
Drop(m, ks) == [x \in DOMAIN m \ ks |-> m[x]]

\* A row of node_mapping beside its key.
NodeRow(nodeUid, parentNodeUid, isDirectory) ==
  [nodeUid |-> nodeUid, parentNodeUid |-> parentNodeUid,
   isDirectory |-> isDirectory]

setNodeMapping(m, localPath, nodeUid, parentNodeUid, isDirectory, dr) ==
  IF dr THEN m
  ELSE Put(m, localPath, NodeRow(nodeUid, parentNodeUid, isDirectory))

deleteNodeMapping(m, localPath, dr) ==
  IF dr THEN m ELSE Drop(m, {localPath})

\* UPDATE ... SET localPath = new WHERE localPath = old
\* newParentNodeUid undefined
NoUid == << >>

\* Variant of updateNodeMappingPath that always sets parentNodeUid.
updateNodeMappingParent(m, oldLocalPath, newLocalPath, newParentNodeUid, dr) ==
  IF dr \/ oldLocalPath \notin DOMAIN m
  THEN m
  ELSE Put(Drop(m, {oldLocalPath}), newLocalPath,
           [m[oldLocalPath] EXCEPT !.parentNodeUid = newParentNodeUid])

updateNodeMappingPath(m, oldLocalPath, newLocalPath, newParentNodeUid, dr) ==
  IF dr \/ oldLocalPath \notin DOMAIN m
  THEN m
  ELSE Put(Drop(m, {oldLocalPath}), newLocalPath,
           IF newParentNodeUid # NoUid
           THEN [m[oldLocalPath] EXCEPT !.parentNodeUid = newParentNodeUid]
           ELSE m[oldLocalPath])

setFileHash(m, localPath, contentHash, dr) ==
  IF dr THEN m ELSE Put(m, localPath, contentHash)

deleteStoredHash(m, localPath, dr) ==
  IF dr THEN m ELSE Drop(m, {localPath})

updateStoredHashPath(m, oldLocalPath, newLocalPath, dr) ==
  IF dr \/ oldLocalPath \notin DOMAIN m
  THEN m
  ELSE Put(Drop(m, {oldLocalPath}), newLocalPath, m[oldLocalPath])

\* computeFileSha1: the digest of a file's bytes, the bytes given by their
\* number; different contents have different digests.
Sha1(bytes) == CASE bytes = 1 -> "356a" [] bytes = 2 -> "da4b" [] OTHER -> "0000"

\* buildChangeToken(mtime_ms, size); the size is the number of bytes.
buildChangeToken(mtime_ms, size) == <<mtime_ms, size>>

\* The nodeUid the remote side gives a node created at a path.
UidAt(rp) == <<"uid">> \o rp
DryRunUid == <<"dry-run-node-uid">>
DryRunParentUid == <<"dry-run-parent-uid">>

\* The uid of the folder a remote path lies in, the root folder for a path
\* of one name.
FolderUidOf(rem, rp) == IF ParentOf(rp) = << >> THEN UidAt(<< >>) ELSE rem[ParentOf(rp)]

\* traverseRemotePath: every ancestor folder is found by name.
traverseRemotePath(rem, rp) == ParentPaths(rp) \subseteq DOMAIN rem

\* Variant of deleteNode that reports a missing node whatever the tree holds.
deleteNodeNotFound(rem, rp) ==
  [remote |-> rem, calls |-> {}, existed |-> FALSE]

\* Variant of deleteNode that trashes and deletes without looking the node
\* up first.
deleteNodeUnchecked(rem, rp) ==
  [remote |-> Drop(rem, {x \in DOMAIN rem : x = rp \/ IsUnderPath(x, rp)}),
   calls |-> {"trash", "delete"},
   existed |-> TRUE]

\* deleteNode(client, remotePath): a missing parent or a missing node is a
\* success with existed = false and no call; otherwise the node is trashed
\* and deleted, with what lies below it.  The function takes no dryRun.
deleteNode(rem, rp) ==
  IF ~traverseRemotePath(rem, rp) \/ rp \notin DOMAIN rem
  THEN [remote |-> rem, calls |-> {}, existed |-> FALSE]
  ELSE [remote |-> Drop(rem, {x \in DOMAIN rem : x = rp \/ IsUnderPath(x, rp)}),
        calls |-> {"trash", "delete"},
        existed |-> TRUE]

\* String.toLowerCase on the digests and the words that occur.
toLowerCase(s) ==
  CASE s = "356A" -> "356a" [] s = "DA4B" -> "da4b"
    [] s = "Already" -> "already" [] s = "Failed" -> "failed" [] OTHER -> s

\* Variant of uploadFile that compares the digests as they are written.
uploadFileExact(rem, dig, rp, localSha1) ==
  IF rp \in DOMAIN rem
  THEN IF dig[rem[rp]] # "none" /\ localSha1 = dig[rem[rp]]
       THEN [remote |-> rem, digests |-> dig, calls |-> {}, nodeUid |-> rem[rp]]
       ELSE [remote |-> rem, digests |-> Put(dig, rem[rp], localSha1),
             calls |-> {"upload_revision"}, nodeUid |-> rem[rp]]
  ELSE [remote |-> Put(rem, rp, UidAt(rp)),
        digests |-> Put(dig, UidAt(rp), localSha1),
        calls |-> {"upload_file"}, nodeUid |-> UidAt(rp)]

\* uploadFile: an existing file of that name keeps its node; the upload is
\* skipped when the remote digest equals the local one in lower case,
\* otherwise a revision is uploaded to the node.  Without such a file a
\* new node is uploaded.
uploadFile(rem, dig, rp, localSha1) ==
  IF rp \in DOMAIN rem
  THEN IF dig[rem[rp]] # "none" /\ toLowerCase(localSha1) = toLowerCase(dig[rem[rp]])
       THEN [remote |-> rem, digests |-> dig, calls |-> {}, nodeUid |-> rem[rp]]
       ELSE [remote |-> rem, digests |-> Put(dig, rem[rp], localSha1),
             calls |-> {"upload_revision"}, nodeUid |-> rem[rp]]
  ELSE [remote |-> Put(rem, rp, UidAt(rp)),
        digests |-> Put(dig, UidAt(rp), localSha1),
        calls |-> {"upload_file"}, nodeUid |-> UidAt(rp)]

\* createDirectory: an existing folder of that name is returned, otherwise
\* the folder is created.
createDirectory(rem, dig, rp) ==
  IF rp \in DOMAIN rem
  THEN [remote |-> rem, digests |-> dig, calls |-> {}, nodeUid |-> rem[rp]]
  ELSE [remote |-> Put(rem, rp, UidAt(rp)), digests |-> dig,
        calls |-> {"create_folder"}, nodeUid |-> UidAt(rp)]

\* createNode(client, localPath, remotePath, dryRun): nothing in dry-run;
\* otherwise ensureRemotePath creates the missing ancestor folders, then
\* createDirectory or uploadFile.
createNode(rem, dig, rp, localSha1, dr) ==
  IF dr
  THEN [remote |-> rem, digests |-> dig, calls |-> {}, nodeUid |-> DryRunUid,
        parentNodeUid |-> DryRunParentUid, isDirectory |-> FALSE]
  ELSE LET missing == ParentPaths(rp) \ DOMAIN rem
           ensured == [x \in DOMAIN rem \cup missing |->
                         IF x \in DOMAIN rem THEN rem[x] ELSE UidAt(x)]
           r == IF IsDirectory(rp) THEN createDirectory(ensured, dig, rp)
                ELSE uploadFile(ensured, dig, rp, localSha1)
       IN [remote |-> r.remote, digests |-> r.digests,
           calls |-> r.calls \cup (IF missing # {} THEN {"create_folder"} ELSE {}),
           nodeUid |-> r.nodeUid,
           parentNodeUid |-> FolderUidOf(ensured, rp),
           isDirectory |-> IsDirectory(rp)]

\* The remote path of the node with a uid.
PathOfUid(rem, nodeUid) == CHOOSE x \in DOMAIN rem : rem[x] = nodeUid

\* relocateNode(client, nodeUid, {newParentNodeUid, newName}, dryRun): the
\* node, and what lies below it, moves to the new path and keeps its uid.
relocateNode(rem, nodeUid, newPath, dr) ==
  IF dr
  THEN [remote |-> rem, calls |-> {}]
  ELSE LET old == PathOfUid(rem, nodeUid)
           Moved(x) == x = old \/ IsUnderPath(x, old)
           Target(x) == IF Moved(x) THEN RebasePath(x, old, newPath) ELSE x
       IN [remote |-> [y \in {Target(x) : x \in DOMAIN rem} |->
                         rem[CHOOSE x \in DOMAIN rem : Target(x) = y]],
           calls |-> {"relocate"}]

\* A row of sync_jobs with the fields processJob reads.
ExecJob(eventType, localPath, oldLocalPath, contentHash) ==
  [eventType |-> eventType, localPath |-> localPath, remotePath |-> TRUE,
   oldLocalPath |-> oldLocalPath, contentHash |-> contentHash,
   state |-> "PENDING", nRetries |-> 0, retryAt |-> 0, lastError |-> "none"]

\* The jobs handleFileChange enqueues: eventType, localPath and remotePath
\* only.  The watcher reports no change of a directory.
FileEventJobs ==
  {ExecJob(e, p, NoPath, "none") :
     e \in FileEventTypes, p \in {DirPath, FilePath}}
  \ {ExecJob("UPDATE", DirPath, NoPath, "none")}

\* The jobs of the change classifier of section 4.3 that handleFileChange
\* does not produce: an UPDATE that carries its contentHash, the RENAME of
\* a file and of a directory, the MOVE of a file, and the RENAMEs back.
ClassifiedJobs ==
  {ExecJob("UPDATE", FilePath, NoPath, Sha1(LocalBytes)),
   ExecJob("RENAME", <<"d", "g">>, FilePath, "none"),
   ExecJob("RENAME", <<"e">>, DirPath, "none"),
   ExecJob("MOVE", <<"e", "f">>, FilePath, "none"),
   ExecJob("RENAME", FilePath, <<"d", "g">>, "none"),
   ExecJob("RENAME", DirPath, <<"e">>, "none")}

ExecJobs == FileEventJobs \cup ClassifiedJobs

\* oldLocalPath of a job; the catch block of processJob enqueues
\* DELETE_AND_CREATE with oldLocalPath = localPath.
OldPathOf(job) ==
  IF job.eventType = "DELETE_AND_CREATE" THEN job.localPath ELSE job.oldLocalPath

\* Section 6, dry-run semantics: an operation of queue.ts writes nothing in
\* a dry run.
Written(dr, old, new) == IF dr THEN old ELSE new

\* The state store and the remote tree found by a run: rows of earlier
\* completed jobs for the directory and the file, each table on its own, and
\* a remote tree that may have lost nodes since.
\* Digests the remote side claims for a file: none, the SHA-1 of other
\* bytes, and the SHA-1 of the local bytes written in upper case.
RemoteDigests == {"none", "356a", "DA4B"}

\* The digests of the nodes that are left.
Surviving(dig, rem) == [u \in {rem[x] : x \in DOMAIN rem} \cap DOMAIN dig |-> dig[u]]

InitStores ==
  /\ \E S \in SUBSET {DirPath, FilePath} : nodeRows = [p \in S |-> NodeRow(UidAt(p), UidAt(ParentOf(p)), IsDirectory(p))]
  /\ \E H \in SUBSET {FilePath} : fileHashes = [p \in H |-> Sha1(1)]
  /\ \E F \in {{}, {DirPath, FilePath}} :
       fileState = [p \in F |-> buildChangeToken(0, 1)]
  /\ \E R \in {{}, {DirPath}, {DirPath, FilePath}} :
       remote = [p \in R |-> UidAt(p)]
  /\ digests \in [{remote[p] : p \in {x \in DOMAIN remote : ~IsDirectory(x)}}
                   -> RemoteDigests]

\* The kinds of failure a run meets at the remote side.
Weather ==
  {{}, {"TRANSIENT_NETWORK", "RATE_LIMITED"}, {"REUPLOAD_NEEDED"}, {"PERMANENT"}}

InitExec ==
  /\ InitSide
  /\ disk = NoRows
  /\ changes = << >>
  /\ InitStores
  /\ rowsAtStart = nodeRows
  /\ dryRun \in BOOLEAN
  /\ mayFail \in Weather
  /\ jobs \in {<< >>} \cup {<<j>> : j \in ExecJobs}
  /\ calls = {}
  /\ nFailed = 0
  /\ nodeMapping = {}
  /\ completed = {}
  /\ owed = {}
  /\ audit = FALSE
  /\ tasks = EmptyBag
  /\ activeTasks = {}
  /\ syncConcurrency = DEFAULT_SYNC_CONCURRENCY
  /\ cfgK = MaxK
  /\ proc = "watch"
  /\ drainPc = "loop"
  /\ totalChanges = FALSE
  /\ paused = FALSE
  /\ nEvents = 0
  /\ nDirChanges = 0
  /\ note = "none"

\* What no step of the execution changes.
idle == <<nodeMapping, syncConcurrency, proc, totalChanges, config, counters,
          note, ghosts, dryRun, mayFail, aux>>

\* A job is enqueued once the jobs before it have ended, one job per path.
ExecEnqueue(job) ==
  /\ ~dryRun
  /\ tasks = EmptyBag
  /\ Len(jobs) < MaxExecJobs
  /\ \A i \in Ids(jobs) : jobs[i].state \in {"SYNCED", "BLOCKED"}
  /\ Existing(jobs, job.localPath) = {}
  /\ job.eventType \in {"RENAME", "MOVE"} => job.localPath \notin DOMAIN nodeRows
  /\ jobs' = Append(jobs, job)
  /\ nFailed' = 0
  /\ UNCHANGED <<idle, digests, stores, remote, calls, tasks, activeTasks, drainPc>>

\* processAvailableJobs on the empty pool: the ready job is claimed and
\* processJob starts.
ExecClaim ==
  /\ tasks = EmptyBag
  /\ NextPendingId(jobs) # 0
  /\ LET st == SettleThrown(processAvailableJobs(CurrentPool, syncConcurrency)) IN
       /\ jobs' = Written(dryRun, jobs, st.jobs)
       /\ tasks' = st.tasks
       /\ activeTasks' = st.activeTasks
  /\ calls' = {}
  /\ UNCHANGED <<idle, digests, stores, remote, nFailed, drainPc>>

\* case DELETE: deleteNodeOrThrow, then deleteNodeMapping and markJobSynced
\* in one transaction.
ExecDelete(t) ==
  /\ t \in BagToSet(tasks)
  /\ t.eventType = "DELETE"
  /\ LET r == deleteNode(remote, t.localPath) IN
       /\ remote' = r.remote
       /\ digests' = Surviving(digests, r.remote)
       /\ calls' = calls \cup r.calls
  /\ nodeRows' = deleteNodeMapping(nodeRows, t.localPath, dryRun)
  /\ jobs' = Written(dryRun, jobs, markJobSynced(jobs, t.id))
  /\ TaskSettles(t)
  /\ UNCHANGED <<idle, fileHashes, fileState, nFailed>>

\* case CREATE, UPDATE, and steps 3 and 4 of DELETE_AND_CREATE:
\* createNodeOrThrow, then setNodeMapping, setFileHash if the job carries a
\* contentHash, and markJobSynced in one transaction.
ExecCreate(t) ==
  /\ t \in BagToSet(tasks)
  /\ \/ t.eventType \in {"CREATE", "UPDATE"}
     \/ t.eventType = "DELETE_AND_CREATE" /\ t.pc = "create"
  /\ LET r == createNode(remote, digests, t.localPath, Sha1(LocalBytes),
                         dryRun) IN
       /\ remote' = r.remote
       /\ digests' = r.digests
       /\ calls' = calls \cup r.calls
       /\ nodeRows' = setNodeMapping(nodeRows, t.localPath, r.nodeUid,
                                    r.parentNodeUid, r.isDirectory, dryRun)
  /\ fileHashes' = IF jobs[t.id].contentHash # "none"
                   THEN setFileHash(fileHashes, t.localPath,
                                    jobs[t.id].contentHash, dryRun)
                   ELSE fileHashes
  /\ jobs' = Written(dryRun, jobs, markJobSynced(jobs, t.id))
  /\ TaskSettles(t)
  /\ UNCHANGED <<idle, fileState, nFailed>>

\* case DELETE_AND_CREATE, steps 1 and 2: deleteNodeOrThrow of the old
\* path, then deleteNodeMapping and deleteStoredHash in one transaction.
ExecDeleteStep(t) ==
  /\ t \in BagToSet(tasks)
  /\ t.eventType = "DELETE_AND_CREATE"
  /\ t.pc = "run"
  /\ LET r == deleteNode(remote, OldPathOf(jobs[t.id])) IN
       /\ remote' = r.remote
       /\ digests' = Surviving(digests, r.remote)
       /\ calls' = calls \cup r.calls
  /\ nodeRows' = deleteNodeMapping(nodeRows, OldPathOf(jobs[t.id]), dryRun)
  /\ fileHashes' = deleteStoredHash(fileHashes, OldPathOf(jobs[t.id]), dryRun)
  /\ tasks' = (tasks (-) SetToBag({t})) (+) SetToBag({[t EXCEPT !.pc = "create"]})
  /\ UNCHANGED <<idle, jobs, activeTasks, drainPc, fileState, nFailed>>

\* case RENAME, MOVE with a node mapping for oldLocalPath: relocateNode
\* (for MOVE after getParentFolderUid has found the new parent), then
\* updateNodeMappingPath, updateStoredHashPath and markJobSynced in one
\* transaction.
ExecRelocate(t) ==
  /\ t \in BagToSet(tasks)
  /\ t.eventType \in {"RENAME", "MOVE"}
  /\ OldPathOf(jobs[t.id]) \in DOMAIN nodeRows
  /\ \/ dryRun
     \/ /\ \E x \in DOMAIN remote : remote[x] = nodeRows[OldPathOf(jobs[t.id])].nodeUid
        /\ t.localPath \notin DOMAIN remote
        /\ traverseRemotePath(remote, t.localPath)
        /\ t.localPath \notin DOMAIN nodeRows
  /\ LET r == relocateNode(remote, nodeRows[OldPathOf(jobs[t.id])].nodeUid,
                           t.localPath, dryRun) IN
       /\ remote' = r.remote
       /\ calls' = calls \cup r.calls
  /\ nodeRows' = updateNodeMappingPath(
                  nodeRows, OldPathOf(jobs[t.id]), t.localPath,
                  IF t.eventType = "MOVE" /\ ~dryRun
                  THEN FolderUidOf(remote, t.localPath) ELSE NoUid,
                  dryRun)
  /\ fileHashes' = updateStoredHashPath(fileHashes, OldPathOf(jobs[t.id]),
                                        t.localPath, dryRun)
  /\ jobs' = Written(dryRun, jobs, markJobSynced(jobs, t.id))
  /\ TaskSettles(t)
  /\ UNCHANGED <<idle, digests, fileState, nFailed>>

\* case RENAME, MOVE without a node mapping for oldLocalPath: processJob
\* throws before any remote call, and the catch block handles the error,
\* which section 4.4 classifies as CLIENT_STATE.
ExecMissingMapping(t) ==
  /\ t \in BagToSet(tasks)
  /\ t.eventType \in {"RENAME", "MOVE"}
  /\ OldPathOf(jobs[t.id]) \notin DOMAIN nodeRows
  /\ nFailed < MaxFailed
  /\ jobs' = Written(dryRun, jobs, processJobCatch(jobs, t, "CLIENT_STATE"))
  /\ nFailed' = nFailed + 1
  /\ TaskSettles(t)
  /\ UNCHANGED <<idle, digests, stores, remote, calls>>

\* A remote call of the task fails with an error of the given category and
\* has changed nothing.
ExecFails(t, category) ==
  /\ t \in BagToSet(tasks)
  /\ ~dryRun
  /\ category \in mayFail
  /\ nFailed < MaxFailed
  /\ t.eventType \in {"RENAME", "MOVE"} => OldPathOf(jobs[t.id]) \in DOMAIN nodeRows
  /\ jobs' = processJobCatch(jobs, t, category)
  /\ nFailed' = nFailed + 1
  /\ TaskSettles(t)
  /\ UNCHANGED <<idle, digests, stores, remote, calls>>

\* Time passes for the rows that wait for their retry.
ExecClockTick ==
  /\ ClockTick
  /\ tasks = EmptyBag

\* One job after the other, each executed by processJob.
NextExec ==
  \/ \E job \in ExecJobs : ExecEnqueue(job)
  \/ ExecClaim
  \/ \E t \in BagToSet(tasks) : ExecDelete(t)
  \/ \E t \in BagToSet(tasks) : ExecCreate(t)
  \/ \E t \in BagToSet(tasks) : ExecDeleteStep(t)
  \/ \E t \in BagToSet(tasks) : ExecRelocate(t)
  \/ \E t \in BagToSet(tasks) : ExecMissingMapping(t)
  \/ \E t \in BagToSet(tasks), c \in ErrorCategory : ExecFails(t, c)
  \/ ExecClockTick
SpecExec == InitExec /\ [][NextExec]_vars

\* -------------------------------------------------------------------------
\* Watcher (watcher.ts) and the engine's change handler (engine.ts)
\* -------------------------------------------------------------------------

\* The watched tree: a directory, two files in it and a file beside it.
SiblingPath == <<"d", "g">>
OutsidePath == <<"g">>
WatchFiles == {FilePath, SiblingPath, OutsidePath}
WatchPaths == {DirPath} \cup WatchFiles

\* stats of an entry: a directory, or a file with its bytes (the size) and
\* its modification time.
DirStats == [size |-> 0, mtime_ms |-> 0, isDirectory |-> TRUE]
FileStats ==
  [size : 1..LocalBytes, mtime_ms : 0..LocalMtime, isDirectory : {FALSE}]

\* The states of the tree: a file of the directory needs the directory.
FsStates ==
  {fs \in UNION {[S -> FileStats \cup {DirStats}] : S \in SUBSET WatchPaths} :
     /\ \A p \in DOMAIN fs : fs[p].isDirectory <=> p = DirPath
     /\ \A p \in DOMAIN fs : Len(p) = 2 => DirPath \in DOMAIN fs}

\* The orders in which the entries of a map are visited.
RECURSIVE Orders(_)
Orders(S) ==
  IF S = {} THEN {<< >>}
  ELSE UNION {{<<x>> \o o : o \in Orders(S \ {x})} : x \in S}

\* FileChange records the watcher hands to the engine.
FileChange_(name, stats, exists, isNew) ==
  [name |-> name, size |-> stats.size, mtime_ms |-> stats.mtime_ms,
   exists |-> exists, type |-> IF stats.isDirectory THEN "d" ELSE "f",
   new |-> isNew]

\* The record of a deleted entry: size 0, type 'f' whatever it was.
Deleted(name) ==
  [name |-> name, size |-> 0, mtime_ms |-> 0, exists |-> FALSE, type |-> "f",
   new |-> FALSE]

\* compareWithStoredChangeTokens, first loop: the entries on disk in the
\* order of fsState; new ones, and files whose token differs.
RECURSIVE NewAndUpdated(_, _, _)
NewAndUpdated(order, fsState, storedTokens) ==
  IF order = << >> THEN << >>
  ELSE LET fullPath == Head(order)
           stats == fsState[fullPath]
           currentToken == buildChangeToken(stats.mtime_ms, stats.size)
           rest == NewAndUpdated(Tail(order), fsState, storedTokens)
       IN IF fullPath \notin DOMAIN storedTokens
          THEN <<FileChange_(fullPath, stats, TRUE, TRUE)>> \o rest
          ELSE IF storedTokens[fullPath] # currentToken /\ ~stats.isDirectory
          THEN <<FileChange_(fullPath, stats, TRUE, FALSE)>> \o rest
          ELSE rest

\* compareWithStoredChangeTokens, second loop: the stored paths that are
\* not on disk.
RECURSIVE Missing(_, _)
Missing(order, fsState) ==
  IF order = << >> THEN << >>
  ELSE IF Head(order) \notin DOMAIN fsState
  THEN <<Deleted(Head(order))>> \o Missing(Tail(order), fsState)
  ELSE Missing(Tail(order), fsState)

\* Variant of compareWithStoredChangeTokens whose second loop does not look
\* at the disk.
compareWithStoredOnly(fsOrder, fsState, storedOrder, storedTokens) ==
  NewAndUpdated(fsOrder, fsState, storedTokens) \o Missing(storedOrder, NoRows)

compareWithStoredChangeTokens(fsOrder, fsState, storedOrder, storedTokens) ==
  NewAndUpdated(fsOrder, fsState, storedTokens) \o Missing(storedOrder, fsState)

\* handleFileChange of the engine: the event type of a change.
EventTypeOf(file) ==
  IF ~file.exists THEN "DELETE"
  ELSE IF file.new THEN "CREATE"
  ELSE "UPDATE"

\* The handler applied to every change of a batch, in order.
RECURSIVE onFileChangeBatch(_, _)
onFileChangeBatch(js, files) ==
  IF files = << >> THEN js
  ELSE onFileChangeBatch(
         handleFileChange(js, EventTypeOf(Head(files)), Head(files).name),
         Tail(files))

\* What the watcher and the change handler leave alone.
engineRest == <<nodeMapping, tasks, activeTasks, syncConcurrency, cfgK, proc,
                drainPc, totalChanges, paused, nDirChanges, note, audit,
                completed, owed>>
execRest == <<remote, digests, calls, dryRun, mayFail, nFailed>>

\* The process and the remote side at rest.
InitEngineRest ==
  /\ nodeMapping = {}
  /\ completed = {}
  /\ owed = {}
  /\ audit = FALSE
  /\ tasks = EmptyBag
  /\ activeTasks = {}
  /\ syncConcurrency = DEFAULT_SYNC_CONCURRENCY
  /\ cfgK = MaxK
  /\ proc = "watch"
  /\ drainPc = "loop"
  /\ totalChanges = FALSE
  /\ paused = FALSE
  /\ nEvents = 0
  /\ nDirChanges = 0
  /\ note = "none"
InitExecRest ==
  /\ remote = NoRows
  /\ digests = NoRows
  /\ calls = {}
  /\ dryRun = FALSE
  /\ mayFail = {}
  /\ nFailed = 0

\* The stores a run of the watcher finds: tokens and hashes an earlier run
\* left for some of the paths; the directory has been modified since.
StoredToken(p) ==
  IF p = DirPath THEN buildChangeToken(1, 0) ELSE buildChangeToken(0, 1)

InitWatch ==
  /\ InitSide
  /\ InitEngineRest
  /\ InitExecRest
  /\ jobs = << >>
  /\ rowsAtStart = NoRows
  /\ disk \in {fs \in FsStates : \A p \in DOMAIN fs : fs[p].mtime_ms = 0}
  /\ changes = << >>
  /\ \E S \in SUBSET WatchPaths : fileState = [p \in S |-> StoredToken(p)]
  /\ \E H \in {{}, DOMAIN fileState \cap WatchFiles} :
       fileHashes = [p \in H |-> Sha1(1)]
  /\ nodeRows = [p \in DOMAIN fileHashes |->
                   NodeRow(UidAt(p), UidAt(ParentOf(p)), FALSE)]

\* scanDirectory: the entries of the tree that isPathExcluded lets pass,
\* with their stats.
scanDirectory(fs, excludePatterns) == [p \in DOMAIN fs \ excludePatterns |-> fs[p]]

\* queryAllChanges: scan, compare with the stored tokens, and hand the
\* batch to the engine's handler.
ScanDiff ==
  \E fsOrder \in Orders(DOMAIN scanDirectory(disk, excluded)),
     storedOrder \in Orders(DOMAIN fileState) :
    LET batch == compareWithStoredChangeTokens(
                   fsOrder, scanDirectory(disk, excluded), storedOrder,
                   fileState)
    IN /\ nEvents < MaxEvents
       /\ batch # << >>
       /\ nEvents' = nEvents + 1
       /\ changes' = batch
       /\ jobs' = onFileChangeBatch(jobs, batch)
       /\ UNCHANGED <<engineRest, execRest, stores, disk, rowsAtStart, side>>

\* chokidar 'add' / 'addDir': handleFileAdd, handleDirAdd.
FsAdd(p, stats) ==
  /\ nEvents < MaxEvents
  /\ nEvents' = nEvents + 1
  /\ p \notin DOMAIN disk
  /\ Put(disk, p, stats) \in FsStates
  /\ disk' = Put(disk, p, stats)
  /\ changes' = <<FileChange_(p, stats, TRUE, TRUE)>>
  /\ jobs' = onFileChangeBatch(jobs, changes')
  /\ UNCHANGED <<engineRest, execRest, stores, rowsAtStart, side>>

\* chokidar 'change': handleFileChange of the watcher drops the event when
\* the token of the file equals the stored one.
FsChange(p, stats) ==
  /\ nEvents < MaxEvents
  /\ nEvents' = nEvents + 1
  /\ p \in DOMAIN disk
  /\ ~disk[p].isDirectory
  /\ stats # disk[p]
  /\ disk' = Put(disk, p, stats)
  /\ changes' =
       IF p \in DOMAIN fileState
          /\ fileState[p] = buildChangeToken(stats.mtime_ms, stats.size)
       THEN << >>
       ELSE <<FileChange_(p, stats, TRUE, FALSE)>>
  /\ jobs' = onFileChangeBatch(jobs, changes')
  /\ UNCHANGED <<engineRest, execRest, stores, rowsAtStart, side>>

\* chokidar 'unlink' / 'unlinkDir': handleFileUnlink, handleDirUnlink.
FsUnlink(p) ==
  /\ nEvents < MaxEvents
  /\ nEvents' = nEvents + 1
  /\ p \in DOMAIN disk
  /\ Drop(disk, {p}) \in FsStates
  /\ disk' = Drop(disk, {p})
  /\ changes' = <<[Deleted(p) EXCEPT !.type = IF disk[p].isDirectory
                                              THEN "d" ELSE "f"]>>
  /\ jobs' = onFileChangeBatch(jobs, changes')
  /\ UNCHANGED <<engineRest, execRest, stores, rowsAtStart, side>>

NextWatch ==
  \/ ScanDiff
  \/ \E p \in WatchPaths, stats \in FileStats \cup {DirStats} : FsAdd(p, stats)
  \/ \E p \in WatchFiles, stats \in FileStats : FsChange(p, stats)
  \/ \E p \in WatchPaths : FsUnlink(p)
SpecWatch == InitWatch /\ [][NextWatch]_vars

\* exclude_patterns is set in the configuration: from now on some of the
\* paths match a pattern.
SetExcludePatterns(S) ==
  /\ excluded = {}
  /\ S # {}
  /\ excluded' = S
  /\ UNCHANGED <<jobs, nEvents, engineRest, execRest, stores, disk, changes,
                 rowsAtStart, notExcl>>

\* The scan of a run after exclusion patterns were configured.
NextExclude ==
  \/ \E p \in WatchPaths : SetExcludePatterns({p})
  \/ ScanDiff
SpecExclude == InitWatch /\ [][NextExclude]_vars

\* -------------------------------------------------------------------------
\* Signal queue (signals.ts: state.json; its later form: the signals table)
\* -------------------------------------------------------------------------

MaxSignals == 2

\* What the components below leave alone: the engine, the processor, the
\* stores, the remote side and the watcher, all at rest.
rest == <<jobs, nEvents, engineRest, execRest, stores, disk, changes,
          rowsAtStart>>
InitRest ==
  /\ InitEngineRest
  /\ InitExecRest
  /\ jobs = << >>
  /\ nodeRows = NoRows
  /\ fileHashes = NoRows
  /\ fileState = NoRows
  /\ disk = NoRows
  /\ changes = << >>
  /\ rowsAtStart = NoRows

\* indexOf(signal) on the queue; 0 when the tag is not queued.
indexOf(q, signal) ==
  IF \E i \in 1..Len(q) : q[i].signal = signal
  THEN CHOOSE i \in 1..Len(q) :
         /\ q[i].signal = signal
         /\ \A j \in 1..(i - 1) : q[j].signal # signal
  ELSE 0

\* splice(index, 1)
splice(q, index) == SubSeq(q, 1, index - 1) \o SubSeq(q, index + 1, Len(q))

\* The rows that are not the row of the given id.
deleteById(q, id) == SelectSeq(q, LAMBDA r : r.id # id)

\* sendSignal: one more row at the end of the queue.
sendSignal(signal) ==
  /\ nSent < MaxSignals
  /\ signals' = Append(signals, [id |-> nSent + 1, signal |-> signal])
  /\ nSent' = nSent + 1
  /\ consumed' = Put(consumed, nSent + 1, 0)
  /\ UNCHANGED <<rest, notSig, sigStore, consumer>>

\* consumeSignal, first half: readFileSync of state.json and indexOf, or
\* the select on the signals table. A call that finds no row returns false.
ConsumeRead(c, signal) ==
  /\ consumer[c].pc = "idle"
  /\ consumer' = [consumer EXCEPT ![c] =
       IF indexOf(signals, signal) = 0
       THEN NoCall
       ELSE [pc |-> "found", data |-> signals,
             index |-> indexOf(signals, signal)]]
  /\ UNCHANGED <<rest, notSig, sigStore, signals, nSent, consumed>>

\* consumeSignal, second half: splice and writeFileSync of the data read,
\* or the delete of the row by its id; the call returns true.
ConsumeWrite(c) ==
  /\ consumer[c].pc = "found"
  /\ LET data == consumer[c].data
         index == consumer[c].index
     IN /\ signals' = IF sigStore = "json"
                      THEN splice(data, index)
                      ELSE deleteById(signals, data[index].id)
        /\ consumed' = [consumed EXCEPT ![data[index].id] = @ + 1]
  /\ consumer' = [consumer EXCEPT ![c] = NoCall]
  /\ UNCHANGED <<rest, notSig, sigStore, nSent>>

NextSignal ==
  \/ \E signal \in SignalTags : sendSignal(signal)
  \/ \E c \in Procs, signal \in SignalTags : ConsumeRead(c, signal)
  \/ \E c \in Procs : ConsumeWrite(c)
InitSignal ==
  /\ InitRest
  /\ sigStore \in {"json", "sqlite"}
  /\ InitSigQueue
  /\ InitAuth
  /\ InitLd
  /\ InitRun
  /\ InitWs
  /\ InitSf
  /\ InitMk
  /\ InitExcl
  /\ InitRoute
  /\ InitDel
SpecSignal == InitSignal /\ [][NextSignal]_vars

\* -------------------------------------------------------------------------
\* Authentication at startup (cli/auth.ts, authenticateWithStatus)
\* -------------------------------------------------------------------------

MAX_RETRIES == 5

\* Messages of the errors createClientFromTokens throws.
AuthErrors == {"fetch failed", "TypeError: fetch failed",
               "Invalid refresh token"}

\* message.includes('fetch failed')
IncludesFetchFailed(message) ==
  message \in {"fetch failed", "TypeError: fetch failed"}

RECURSIVE Pow(_, _)
Pow(b, e) == IF e = 0 THEN 1 ELSE b * Pow(b, e - 1)

\* Math.pow(4, attempt) * 1000
DelayMs(n) == Pow(4, n) * 1000

\* getStoredCredentials: without credentials the function throws at once.
AuthStart(storedCreds) ==
  /\ authPc = "start"
  /\ authPc' = IF storedCreds THEN "try" ELSE "failed"
  /\ authStatus' = IF storedCreds THEN authStatus ELSE "failed"
  /\ UNCHANGED <<rest, notAuth, attempt, lastError, timers, remaining>>

\* One pass of the loop body with createClientFromTokens returning.
AuthSucceeds ==
  /\ authPc = "try"
  /\ attempt < MAX_RETRIES
  /\ authPc' = "done"
  /\ authStatus' = "authenticated"
  /\ UNCHANGED <<rest, notAuth, attempt, lastError, timers, remaining>>

\* One pass of the loop body with createClientFromTokens throwing: rethrow
\* unless the message includes 'fetch failed'; sleep unless this was the
\* last attempt; after the last attempt the loop ends and lastError is
\* thrown.
AuthThrows(message) ==
  /\ authPc = "try"
  /\ attempt < MAX_RETRIES
  /\ lastError' = message
  /\ IF ~IncludesFetchFailed(message)
     THEN /\ authPc' = "failed"
          /\ authStatus' = "failed"
          /\ UNCHANGED <<attempt, timers, remaining>>
     ELSE IF attempt < MAX_RETRIES - 1
     THEN /\ authPc' = "wait"
          /\ authStatus' = "authenticating"
          /\ timers' = Append(timers, DelayMs(attempt))
          /\ remaining' = DelayMs(attempt) \div 1000
          /\ UNCHANGED attempt
     ELSE /\ authPc' = "failed"
          /\ authStatus' = "failed"
          /\ attempt' = attempt + 1
          /\ UNCHANGED <<timers, remaining>>
  /\ UNCHANGED <<rest, notAuth>>

\* A second of the pending timer passes.
AuthSleep ==
  /\ authPc = "wait"
  /\ remaining > 0
  /\ remaining' = remaining - 1
  /\ UNCHANGED <<rest, notAuth, authPc, attempt, lastError, timers, authStatus>>

\* The timer fires: the next pass of the loop begins.
AuthWake ==
  /\ authPc = "wait"
  /\ remaining = 0
  /\ authPc' = "try"
  /\ attempt' = attempt + 1
  /\ authStatus' = "authenticating"
  /\ UNCHANGED <<rest, notAuth, lastError, timers, remaining>>

NextAuth ==
  \/ \E storedCreds \in BOOLEAN : AuthStart(storedCreds)
  \/ AuthSucceeds
  \/ \E message \in AuthErrors : AuthThrows(message)
  \/ AuthSleep
  \/ AuthWake
InitAuthRun == InitRest /\ InitSide
SpecAuth == InitAuthRun /\ [][NextAuth]_vars

\* -------------------------------------------------------------------------
\* deleteNode step by step (proton/delete.ts): lookup, trash, delete
\* -------------------------------------------------------------------------

\* Errors of trashNodes and deleteNodes, as the words of their messages.
AlreadyTrashedError == <<"Already", "trashed">>
NodeErrors ==
  {AlreadyTrashedError,
   <<"permission", "denied">>,
   <<"item", "cannot", "be", "trashed">>,
   <<"operation", "already", "in", "progress">>}

\* String(error).toLowerCase()
LowerCased(message) == [i \in DOMAIN message |-> toLowerCase(message[i])]

\* errorStr.includes(word)
Includes(errorStr, word) == \E i \in DOMAIN errorStr : errorStr[i] = word

\* The test of both catch levels of the trash step: the error is let pass.
Tolerated(error) ==
  \/ Includes(LowerCased(error), "already")
  \/ Includes(LowerCased(error), "trashed")

\* new Error(`Failed to trash: ${result.error}`)
FailedToTrash(error) == <<"Failed", "to", "trash:">> \o error

DeleteOperationResult(success, existed) ==
  [success |-> success, existed |-> existed]

delRest == <<jobs, nEvents, engineRest, stores, disk, changes, rowsAtStart,
             dryRun, mayFail, nFailed, notDel>>

\* deleteNode up to the lookup of the target: a failure to get the root
\* folder is a failure with existed = false; a missing parent or a missing
\* node is a success with existed = false.
DeleteLookup(rp, rootOk) ==
  /\ delPc = "idle"
  /\ delPath' = rp
  /\ IF ~rootOk
     THEN /\ delPc' = "done"
          /\ delResult' = DeleteOperationResult(FALSE, FALSE)
     ELSE IF ~traverseRemotePath(remote, rp) \/ rp \notin DOMAIN remote
     THEN /\ delPc' = "done"
          /\ delResult' = DeleteOperationResult(TRUE, FALSE)
     ELSE /\ delPc' = "trash"
          /\ UNCHANGED delResult
  /\ calls' = {}
  /\ UNCHANGED <<delRest, remote, digests, delError, trashBin>>

\* Step 1: trashNodes answers ok, answers with an error, or throws one.
\* An error result is wrapped and thrown unless it is tolerated; what is
\* thrown is tested once more by the catch around the step.
TrashReturns(error, thrown) ==
  /\ delPc = "trash"
  /\ error = AlreadyTrashedError => remote[delPath] \in trashBin
  /\ calls' = calls \cup {"trash"}
  /\ delError' = error
  /\ trashBin' = IF error = NoError THEN trashBin \cup {remote[delPath]}
                  ELSE trashBin
  /\ LET caught == IF error = NoError THEN NoError
                   ELSE IF thrown THEN error
                   ELSE IF Tolerated(error) THEN NoError
                   ELSE FailedToTrash(error)
     IN IF caught = NoError \/ Tolerated(caught)
        THEN /\ delPc' = "delete"
             /\ UNCHANGED delResult
        ELSE /\ delPc' = "done"
             /\ delResult' = DeleteOperationResult(FALSE, TRUE)
  /\ UNCHANGED <<delRest, remote, digests, delPath>>

\* Step 2: deleteNodes answers ok or with an error.
DeleteReturns(ok) ==
  /\ delPc = "delete"
  /\ calls' = calls \cup {"delete"}
  /\ delPc' = "done"
  /\ IF ok
     THEN /\ remote' = deleteNode(remote, delPath).remote
          /\ digests' = Surviving(digests, remote')
          /\ trashBin' = trashBin \cap {remote'[x] : x \in DOMAIN remote'}
          /\ delResult' = DeleteOperationResult(TRUE, TRUE)
     ELSE /\ delResult' = DeleteOperationResult(FALSE, TRUE)
          /\ UNCHANGED <<remote, digests, trashBin>>
  /\ UNCHANGED <<delRest, delPath, delError>>

\* The caller has the result; the next call may begin.
DeleteDone ==
  /\ delPc = "done"
  /\ delPc' = "idle"
  /\ delPath' = << >>
  /\ delError' = NoError
  /\ delResult' = "none"
  /\ UNCHANGED <<delRest, remote, digests, calls, trashBin>>

NextDelete ==
  \/ \E rp \in {DirPath, FilePath}, rootOk \in BOOLEAN : DeleteLookup(rp, rootOk)
  \/ \E error \in NodeErrors \cup {NoError}, thrown \in BOOLEAN :
       TrashReturns(error, thrown)
  \/ \E ok \in BOOLEAN : DeleteReturns(ok)
  \/ DeleteDone

\* The remote tree a call finds, with some of its nodes already in the trash.
InitDelete ==
  /\ InitEngineRest
  /\ jobs = << >>
  /\ nodeRows = NoRows
  /\ fileHashes = NoRows
  /\ fileState = NoRows
  /\ disk = NoRows
  /\ changes = << >>
  /\ rowsAtStart = NoRows
  /\ calls = {}
  /\ dryRun = FALSE
  /\ mayFail = {}
  /\ nFailed = 0
  /\ InitSig
  /\ InitAuth
  /\ InitLd
  /\ InitRun
  /\ InitWs
  /\ InitSf
  /\ InitMk
  /\ InitExcl
  /\ InitRoute
  /\ InitDelCall
  /\ \E R \in {{}, {DirPath}, {DirPath, FilePath}} :
       remote = [p \in R |-> UidAt(p)]
  /\ digests = [u \in {remote[p] : p \in {x \in DOMAIN remote : ~IsDirectory(x)}}
                  |-> "none"]
  /\ trashBin \in SUBSET {remote[p] : p \in DOMAIN remote}
SpecDelete == InitDelete /\ [][NextDelete]_vars

\* -------------------------------------------------------------------------
\* Rows under a directory (nodes.ts, hashes.ts: the ...UnderPath functions)
\* -------------------------------------------------------------------------

\* Local paths as strings, character by character: directories whose names
\* differ in one place, and a file in each.
Str_a_ == <<"a", "_">>
Str_ax == <<"a", "x">>
Str_aPct == <<"a", "%">>
Str_ayy == <<"a", "y", "y">>
Str_Ax == <<"A", "x">>
Str_b == <<"b">>
LikeDirs == {Str_a_, Str_ax, Str_aPct, Str_ayy, Str_Ax}
FileIn(dir) == dir \o <<"/", "f">>

\* The ASCII case folding of LIKE.
Fold(c) == IF c = "A" THEN "a" ELSE c

\* str LIKE pat, as SQLite evaluates it without an ESCAPE clause: % stands
\* for any run of characters, _ for any one character, and letters match
\* without regard to case.
RECURSIVE Like(_, _)
Like(str, pat) ==
  IF pat = << >> THEN str = << >>
  ELSE IF Head(pat) = "%"
  THEN Like(str, Tail(pat)) \/ (str # << >> /\ Like(Tail(str), pat))
  ELSE /\ str # << >>
       /\ Head(pat) = "_" \/ Fold(Head(str)) = Fold(Head(pat))
       /\ Like(Tail(str), Tail(pat))

\* dirPath.endsWith('/') ? dirPath : `${dirPath}/`
PathPrefixOf(dirPath) ==
  IF dirPath # << >> /\ dirPath[Len(dirPath)] = "/"
  THEN dirPath ELSE dirPath \o <<"/">>

\* where(like(localPath, `${pathPrefix}%`))
Children(m, dirPath) ==
  {p \in DOMAIN m : Like(p, PathPrefixOf(dirPath) \o <<"%">>)}

\* newDirPath + child.localPath.slice(oldDirPath.length)
NewPathOf(localPath, oldDirPath, newDirPath) ==
  newDirPath \o SubSeq(localPath, Len(oldDirPath) + 1, Len(localPath))

\* deleteNodeMappingsUnderPath(dirPath, tx); it takes no dryRun.
deleteNodeMappingsUnderPath(m, dirPath) == Drop(m, Children(m, dirPath))

\* deleteStoredHashesUnderPath(dirPath, tx); it takes no dryRun.
deleteStoredHashesUnderPath(m, dirPath) == Drop(m, Children(m, dirPath))

\* The loop of updates over the selected children. localPath is the
\* conflict target of the table (setNodeMapping), so an update onto the
\* path of another row throws and the transaction changes nothing.
UpdateChildren(m, oldDirPath, newDirPath) ==
  LET children == Children(m, oldDirPath)
      moved == {NewPathOf(p, oldDirPath, newDirPath) : p \in children}
  IN IF Cardinality(moved) # Cardinality(children) \/ moved \cap DOMAIN m # {}
     THEN m
     ELSE [q \in (DOMAIN m \ children) \cup moved |->
             IF q \in moved
             THEN m[CHOOSE p \in children :
                      NewPathOf(p, oldDirPath, newDirPath) = q]
             ELSE m[q]]

updateNodeMappingsUnderPath(m, oldDirPath, newDirPath, dr) ==
  IF dr THEN m ELSE UpdateChildren(m, oldDirPath, newDirPath)

updateStoredHashesUnderPath(m, oldDirPath, newDirPath, dr) ==
  IF dr THEN m ELSE UpdateChildren(m, oldDirPath, newDirPath)

underRest == <<jobs, nEvents, engineRest, execRest, fileState, disk, changes,
               rowsAtStart, side>>

DeleteMappingsUnder(dirPath) ==
  /\ nodeRows' = deleteNodeMappingsUnderPath(nodeRows, dirPath)
  /\ UNCHANGED <<underRest, fileHashes>>

DeleteHashesUnder(dirPath) ==
  /\ fileHashes' = deleteStoredHashesUnderPath(fileHashes, dirPath)
  /\ UNCHANGED <<underRest, nodeRows>>

UpdateMappingsUnder(oldDirPath, newDirPath) ==
  /\ nodeRows' = updateNodeMappingsUnderPath(nodeRows, oldDirPath, newDirPath,
                                             dryRun)
  /\ UNCHANGED <<underRest, fileHashes>>

UpdateHashesUnder(oldDirPath, newDirPath) ==
  /\ fileHashes' = updateStoredHashesUnderPath(fileHashes, oldDirPath,
                                               newDirPath, dryRun)
  /\ UNCHANGED <<underRest, nodeRows>>

NextUnder ==
  \/ \E dirPath \in LikeDirs : DeleteMappingsUnder(dirPath)
  \/ \E dirPath \in LikeDirs : DeleteHashesUnder(dirPath)
  \/ \E dirPath \in LikeDirs : UpdateMappingsUnder(dirPath, Str_b)
  \/ \E dirPath \in LikeDirs : UpdateHashesUnder(dirPath, Str_b)

\* Stores with the rows of some of the directories and of their files.
InitUnder ==
  /\ InitEngineRest
  /\ InitSide
  /\ jobs = << >>
  /\ fileState = NoRows
  /\ disk = NoRows
  /\ changes = << >>
  /\ rowsAtStart = NoRows
  /\ remote = NoRows
  /\ digests = NoRows
  /\ calls = {}
  /\ mayFail = {}
  /\ nFailed = 0
  /\ dryRun \in BOOLEAN
  /\ \E S \in SUBSET LikeDirs :
       /\ nodeRows = [p \in S \cup {FileIn(d) : d \in S} |->
                        IF p \in S
                        THEN NodeRow(UidAt(p), UidAt(<< >>), TRUE)
                        ELSE NodeRow(UidAt(p), UidAt(SubSeq(p, 1, Len(p) - 2)),
                                     FALSE)]
       /\ \E H \in SUBSET S : fileHashes = [p \in {FileIn(d) : d \in H} |-> Sha1(1)]
SpecUnder == InitUnder /\ [][NextUnder]_vars

\* -------------------------------------------------------------------------
\* Paths of a job (engine.ts, handleFileChange)
\* -------------------------------------------------------------------------

\* Source paths and remote roots as strings, character by character.
SourcePaths == {<<"/", "a">>, <<"/", "a", "2">>, <<"/", "b">>}
RemoteRoots == {<< >>, <<"r">>, <<"s">>}
MaxSyncDirs == 2

\* Configurations: sync dirs with distinct source paths, in any order.
SyncDirConfigs ==
  {c \in UNION {[1..n -> [source_path : SourcePaths, remote_root : RemoteRoots]] :
                  n \in 1..MaxSyncDirs} :
     \A i, j \in DOMAIN c : i # j => c[i].source_path # c[j].source_path}

\* String.startsWith
startsWith(str, prefix) ==
  Len(str) >= Len(prefix) /\ SubSeq(str, 1, Len(prefix)) = prefix

\* path.basename: what follows the last "/".
RECURSIVE basename(_)
basename(p) ==
  IF p = << >> \/ p[Len(p)] = "/" THEN << >>
  ELSE Append(basename(SubSeq(p, 1, Len(p) - 1)), p[Len(p)])

\* config.sync_dirs.find(pred): the first element that satisfies it, 0 if
\* there is none.
findSyncDir(dirs, watchRoot) ==
  IF \E i \in DOMAIN dirs : startsWith(watchRoot, dirs[i].source_path)
  THEN CHOOSE i \in DOMAIN dirs :
         /\ startsWith(watchRoot, dirs[i].source_path)
         /\ \A j \in 1..(i - 1) : ~startsWith(watchRoot, dirs[j].source_path)
  ELSE 0

\* handleFileChange: localPath and remotePath of the job it enqueues.
JobPaths(dirs, watchRoot, name) ==
  LET syncDir == findSyncDir(dirs, watchRoot)
      remoteRoot == IF syncDir = 0 THEN << >> ELSE dirs[syncDir].remote_root
      dirName == basename(watchRoot)
  IN [localPath |-> watchRoot \o <<"/">> \o name,
      remotePath |-> IF remoteRoot # << >>
                     THEN remoteRoot \o <<"/">> \o dirName \o <<"/">> \o name
                     ELSE dirName \o <<"/">> \o name]

\* The configuration is loaded.
LoadConfig(c) ==
  /\ syncDirs = << >>
  /\ syncDirs' = c
  /\ UNCHANGED <<rest, notRoute, routed>>

\* The watcher of the i-th sync dir reports a change of a name, and
\* handleFileChange enqueues the job.
RouteChange(i, name) ==
  /\ i \in DOMAIN syncDirs
  /\ routed' = JobPaths(syncDirs, syncDirs[i].source_path, name)
  /\ UNCHANGED <<rest, notRoute, syncDirs>>

NextRoute ==
  \/ \E c \in SyncDirConfigs : LoadConfig(c)
  \/ \E i \in 1..MaxSyncDirs, name \in {<<"f">>, <<"g">>} : RouteChange(i, name)
InitRouteRun == InitRest /\ InitSide
SpecRoute == InitRouteRun /\ [][NextRoute]_vars

\* -------------------------------------------------------------------------
\* Parent folders of a created node (proton/utils.ts, ensureRemotePath)
\* -------------------------------------------------------------------------

RootFolderUid == 0

\* pathParts of the CREATE jobs: d/f and d/e/g share the ancestor d.
PathParts == {<<"d">>, <<"d", "e">>}

\* The folders of a name in a parent.
FoldersNamed(fs, parentFolderUid, folderName) ==
  {f \in fs : f.parent = parentFolderUid /\ f.name = folderName}

\* client.createFolder: a new node with a fresh uid.
createFolder(fs, parentFolderUid, folderName) ==
  fs \cup {[uid |-> Cardinality(fs) + 1, parent |-> parentFolderUid,
            name |-> folderName]}

\* After the folder of pathParts[i] is known: the next part, or the end.
Advance(w, uid, created) ==
  [w EXCEPT !.cur = uid,
            !.i = w.i + 1,
            !.needToCreate = w.needToCreate \/ created,
            !.pc = IF w.i = Len(w.parts) THEN "done"
                   ELSE IF w.needToCreate \/ created THEN "create" ELSE "find"]

\* The kind of remote side the run talks to, and the call of a task begins.
EnsureStart(j, pathParts, unique) ==
  /\ walk[j].pc = "idle"
  /\ \A k \in PoolTasks : walk[k].pc = "idle" \/ unique = uniqueNames
  /\ uniqueNames' = unique
  /\ walk' = [walk EXCEPT ![j] = [pc |-> "find", parts |-> pathParts, i |-> 1,
                                   cur |-> RootFolderUid,
                                   needToCreate |-> FALSE]]
  /\ UNCHANGED <<rest, notMk, folders>>

\* await findFolderByName: a folder of the name is found (one of them, in
\* the order the remote side lists the children), or none is.
EnsureFind(j) ==
  /\ walk[j].pc = "find"
  /\ LET w == walk[j]
         found == FoldersNamed(folders, w.cur, w.parts[w.i])
     IN IF found = {}
        THEN walk' = [walk EXCEPT ![j].pc = "create"]
        ELSE \E f \in found : walk' = [walk EXCEPT ![j] = Advance(w, f.uid, FALSE)]
  /\ UNCHANGED <<rest, notMk, folders, uniqueNames>>

\* await client.createFolder: the folder is created, or the remote side
\* refuses the name and ensureRemotePath throws.
EnsureCreate(j) ==
  /\ walk[j].pc = "create"
  /\ LET w == walk[j] IN
       IF uniqueNames /\ FoldersNamed(folders, w.cur, w.parts[w.i]) # {}
       THEN /\ walk' = [walk EXCEPT ![j].pc = "failed"]
            /\ UNCHANGED folders
       ELSE /\ folders' = createFolder(folders, w.cur, w.parts[w.i])
            /\ walk' = [walk EXCEPT ![j] =
                          Advance(w, Cardinality(folders) + 1, TRUE)]
  /\ UNCHANGED <<rest, notMk, uniqueNames>>

\* The job that failed is run again: ensureRemotePath starts over.
EnsureRetry(j) ==
  /\ walk[j].pc = "failed"
  /\ walk' = [walk EXCEPT ![j] = [pc |-> "find", parts |-> walk[j].parts,
                                   i |-> 1, cur |-> RootFolderUid,
                                   needToCreate |-> FALSE]]
  /\ UNCHANGED <<rest, notMk, folders, uniqueNames>>

NextEnsure ==
  \/ \E j \in PoolTasks, pathParts \in PathParts, unique \in BOOLEAN :
       EnsureStart(j, pathParts, unique)
  \/ \E j \in PoolTasks : EnsureFind(j)
  \/ \E j \in PoolTasks : EnsureCreate(j)
  \/ \E j \in PoolTasks : EnsureRetry(j)
InitEnsure == InitRest /\ InitSide
SpecEnsure == InitEnsure /\ [][NextEnsure]_vars

\* -------------------------------------------------------------------------
\* Properties
\* -------------------------------------------------------------------------

ActiveRows(p) ==
  {i \in Ids(jobs) : jobs[i].localPath = p
                     /\ jobs[i].state \in {"PENDING", "PROCESSING"}}

\* Number of running tasks, counted with multiplicity, that satisfy Of.
TasksWhere(Of(_)) ==
  BagCardinality([t \in {u \in BagToSet(tasks) : Of(u)} |-> tasks[t]])

TasksOnPath(p) == LET Of(t) == t.localPath = p IN TasksWhere(Of)

\* C1: in every reachable state, every localPath has at most one row in
\* PENDING or PROCESSING.
C1_OneActiveRowPerPath == \A p \in Paths : Cardinality(ActiveRows(p)) <= 1

\* C1, its case: with two file events and no sync_dirs change, the task of a
\* DELETE_AND_CREATE job runs while the row it was claimed from is a PENDING
\* DELETE: a failed job has enqueued DELETE_AND_CREATE for its own path, and
\* a DELETE event has then been enqueued while that job was being processed.
C1_Witness ==
  /\ nEvents = 2
  /\ nDirChanges = 0
  /\ \E t \in BagToSet(tasks) :
       /\ t.eventType = "DELETE_AND_CREATE"
       /\ jobs[t.id].eventType = "DELETE"
       /\ jobs[t.id].state = "PENDING"
       /\ jobs[t.id].nRetries = 0

\* C2: at any time at most one task executes a job of a given localPath
\* (and so no job is executed by two tasks at once), also when
\* cleanupOrphanedJobs runs for a sync_dirs change with tasks in flight.
C2_OneTaskPerPath == \A p \in Paths : TasksOnPath(p) <= 1

\* C3: the number of in-flight tasks never exceeds K, the current value of
\* sync_concurrency, also when setSyncConcurrency lowers K while tasks run.
C3_PoolBound == BagCardinality(tasks) <= syncConcurrency

\* C4: whenever the task of a claimed job finishes, the row is SYNCED (on
\* success), or BLOCKED or PENDING with nRetries incremented (on failure),
\* with lastError set to the failure; a row is never left in PROCESSING
\* without a task while the process runs.
C4_TaskOutcome ==
  [][/\ \A t \in BagToSet(tasks) :
          jobs[t.id].state = "PROCESSING" =>
            /\ TaskSucceeds(t) => jobs'[t.id].state = "SYNCED"
            /\ \A c \in Failures :
                 TaskFails(t, c) =>
                   /\ jobs'[t.id].lastError = c
                   /\ \/ jobs'[t.id].state = "BLOCKED"
                      \/ /\ jobs'[t.id].state = "PENDING"
                         /\ jobs'[t.id].nRetries = t.nRetries + 1
     /\ ~(proc' \in {"down", "exited"}) =>
          \A i \in Ids(jobs') :
            jobs'[i].state = "PROCESSING" =>
              \E t \in BagToSet(tasks') : t.id = i]_vars

\* The stores some serial execution of the completed jobs can leave: per
\* path, whichever completed job of the path comes last decides.
SerialStores ==
  {m \in SUBSET Paths :
     \A p \in Paths :
       IF p \in m
       THEN \E e \in SyncEventType \ {"DELETE"} : <<e, p>> \in completed
       ELSE \/ <<"DELETE", p>> \in completed
            \/ \A e \in SyncEventType : <<e, p>> \notin completed}

\* C5: after a kill at any point and a restart, the store equals the result
\* of some serial execution of the completed jobs, and every event whose job
\* has not reached SYNCED or BLOCKED is represented by a PENDING job.
C5_KillRestart ==
  proc \in {"setup", "scan"} =>
    /\ nodeMapping \in SerialStores
    /\ \A p \in owed :
         \E i \in Ids(jobs) : jobs[i].localPath = p /\ jobs[i].state = "PENDING"

\* The rows a step claims.
Claimed ==
  {i \in Ids(jobs) : jobs[i].state # "PROCESSING" /\ jobs'[i].state = "PROCESSING"}

\* C6: every start, in watch mode and in one-shot mode, sets each row found
\* in PROCESSING back to PENDING, ready now; no row is PROCESSING until the
\* run claims its first job, and the start itself claims none.
C6_StartupRecovery ==
  [][/\ (Stopped /\ ~Stopped') =>
          /\ Claimed = {}
          /\ \A i \in Ids(jobs) :
               jobs[i].state = "PROCESSING" =>
                 jobs'[i].state = "PENDING" /\ jobs'[i].retryAt = 0
     /\ proc' \in {"setup", "scan"} =>
          \A i \in Ids(jobs') : jobs'[i].state # "PROCESSING"
     /\ Claimed # {} => proc \in {"setup", "watch", "drain"}]_vars

\* C6, its case: a one-shot run has started, has found a row in PROCESSING
\* and has not claimed anything yet.
C6_Witness == proc = "scan" /\ note = "recovered"

\* C7: the process does not exit on the stop signal while a task is in
\* flight (the exit happens in the step of the signal, before any of the
\* shutdown timeout has elapsed).
C7_StopWaits == [][StopSignal => tasks = EmptyBag]_vars

\* C8: while the pause flag is set no tick of the loop claims a job or
\* starts a task; a task that runs while the flag is set still finishes and
\* records its outcome; with the flag clear, a tick that has a free slot
\* claims the next ready job.
C8_Pause ==
  [][/\ (paused /\ (ProcessLoopTick \/ WatchReady)) =>
          jobs' = jobs /\ tasks' = tasks
     /\ \A t \in BagToSet(tasks) :
          (paused /\ jobs[t.id].state = "PROCESSING" /\ TasksOnPath(t.localPath) = 1) =>
            /\ ENABLED TaskSucceeds(t) \/ ENABLED TaskDeleteStep(t)
            /\ TaskSucceeds(t) => jobs'[t.id].state = "SYNCED"
            /\ TaskFails(t, "PERMANENT") => jobs'[t.id].state = "BLOCKED"
     /\ (~paused /\ ProcessLoopTick /\ NextPendingId(jobs) # 0
           /\ AvailableSlots(syncConcurrency, activeTasks) > 0) =>
          jobs'[NextPendingId(jobs)].state = "PROCESSING"]_vars

\* C8, its case: the flag is set, a tick has left a ready job unclaimed
\* although a slot was free, and a task started earlier is still running.
C8_Witness == paused /\ note = "skipped" /\ tasks # EmptyBag

C10_PermanentBlocks ==
  [][/\ \A t \in BagToSet(tasks) :
          (jobs[t.id].state = "PROCESSING" /\ TaskFails(t, "PERMANENT")) =>
            jobs'[t.id].state = "BLOCKED" /\ jobs'[t.id].lastError = "PERMANENT"
     /\ \A i \in Ids(jobs) :
          (jobs[i].state = "BLOCKED" /\ jobs[i].lastError = "PERMANENT") =>
            \/ jobs'[i].state = "BLOCKED"
            \/ \E e \in FileEventTypes : FileChange(e, jobs[i].localPath)]_vars
\* The categories with unlimited retries.
Unlimited == {"TRANSIENT_NETWORK", "RATE_LIMITED"}

\* C11: a failure with TRANSIENT_NETWORK or RATE_LIMITED returns the job to
\* PENDING with nRetries increased by exactly one, whatever its nRetries,
\* and never blocks it; a success leaves nRetries as it is, so a job that
\* is SYNCED after k such failures has nRetries = k.
C11_UnlimitedRetries ==
  [][/\ \A t \in BagToSet(tasks), c \in Unlimited :
          ExecFails(t, c) =>
            /\ jobs'[t.id].state = "PENDING"
            /\ jobs'[t.id].nRetries = jobs[t.id].nRetries + 1
            /\ jobs'[t.id].lastError = c
     /\ \A i \in Ids(jobs') :
          (mayFail = Unlimited /\ jobs'[i].state = "BLOCKED") =>
            jobs'[i].lastError = "CLIENT_STATE"
     /\ (mayFail = Unlimited /\ jobs' # << >>
           /\ jobs'[Len(jobs')].state = "SYNCED") =>
          jobs'[Len(jobs')].nRetries = nFailed']_vars

\* C11, its case: a job is SYNCED with nRetries = 2 after it has failed
\* twice, the last time with RATE_LIMITED (the scenario of two 503s and
\* a success, k = 2).
C11_Witness ==
  /\ jobs # << >>
  /\ jobs[Len(jobs)].state = "SYNCED"
  /\ jobs[Len(jobs)].nRetries = 2
  /\ nFailed = 2
  /\ jobs[Len(jobs)].lastError = "RATE_LIMITED"


\* C12: a job that fails with REUPLOAD_NEEDED is retried while nRetries < 2,
\* converted to DELETE_AND_CREATE from nRetries = 2 on, and BLOCKED after at
\* most 5 retries: when every attempt fails with REUPLOAD_NEEDED, the job
\* is BLOCKED once it has failed six times.
C12_ReuploadBlocks ==
  (/\ jobs # << >>
   /\ ~dryRun
   /\ mayFail = {"REUPLOAD_NEEDED"}
   /\ jobs[Len(jobs)].lastError = "REUPLOAD_NEEDED"
   /\ nFailed >= 6) =>
    jobs[Len(jobs)].state = "BLOCKED"

\* C13: a RENAME or MOVE whose oldLocalPath has no NodeMapping row fails
\* with CLIENT_STATE without any relocate call; the failure puts the job
\* back to PENDING with one more retry while nRetries < 3 and makes it
\* BLOCKED at nRetries = 3, so it is retried at most 3 times.
C13_MissingMapping ==
  [][\A t \in BagToSet(tasks) :
       (ExecMissingMapping(t) /\ ~dryRun) =>
         /\ jobs[t.id].eventType \in {"RENAME", "MOVE"}
         /\ jobs[t.id].oldLocalPath \notin DOMAIN nodeRows
         /\ calls' = {}
         /\ remote' = remote
         /\ jobs'[t.id].lastError = "CLIENT_STATE"
         /\ jobs[t.id].nRetries <= 3
         /\ IF jobs[t.id].nRetries < 3
            THEN /\ jobs'[t.id].state = "PENDING"
                 /\ jobs'[t.id].nRetries = jobs[t.id].nRetries + 1
            ELSE /\ jobs'[t.id].state = "BLOCKED"
                 /\ jobs'[t.id].nRetries = 3]_vars

\* C13, its case: a MOVE without mapping is BLOCKED with CLIENT_STATE after
\* its fourth failure (three retries), and no remote call was made.
C13_Witness ==
  /\ ~dryRun
  /\ jobs # << >>
  /\ jobs[Len(jobs)].eventType = "MOVE"
  /\ jobs[Len(jobs)].state = "BLOCKED"
  /\ jobs[Len(jobs)].lastError = "CLIENT_STATE"
  /\ jobs[Len(jobs)].nRetries = 3
  /\ nFailed = 4
  /\ calls = {}

\* C14: the step that makes a CREATE or UPDATE job of a file SYNCED leaves
\* FileHash[p] equal to the SHA-1 of the local bytes, a NodeMapping row for
\* p, and FileState[p] equal to the change token of the file, all written
\* by that one step.
C14_CreateWritesAll ==
  [][\A t \in BagToSet(tasks) :
       (/\ ExecCreate(t)
        /\ ~dryRun
        /\ t.eventType \in {"CREATE", "UPDATE"}
        /\ ~IsDirectory(t.localPath)) =>
         /\ jobs'[t.id].state = "SYNCED"
         /\ t.localPath \in DOMAIN nodeRows'
         /\ t.localPath \in DOMAIN fileHashes'
         /\ fileHashes'[t.localPath] = Sha1(LocalBytes)
         /\ t.localPath \in DOMAIN fileState'
         /\ fileState'[t.localPath] = buildChangeToken(LocalMtime, LocalBytes)]_vars

\* C15: the step that makes a DELETE job SYNCED leaves no FileHash row, no
\* NodeMapping row and no FileState row for the path.
C15_DeleteRemovesAll ==
  [][\A t \in BagToSet(tasks) :
       (ExecDelete(t) /\ ~dryRun) =>
         /\ jobs'[t.id].state = "SYNCED"
         /\ t.localPath \notin DOMAIN nodeRows'
         /\ t.localPath \notin DOMAIN fileHashes'
         /\ t.localPath \notin DOMAIN fileState']_vars

\* C16: the step that makes a RENAME p_old -> p_new SYNCED leaves no row
\* of FileHash, NodeMapping or FileState for p_old, and a row for p_new in
\* all three (FileHash for a file), the NodeMapping row with the nodeUid
\* p_old had before.
C16_RenameMovesAll ==
  [][\A t \in BagToSet(tasks) :
       (ExecRelocate(t) /\ ~dryRun /\ t.eventType = "RENAME") =>
         LET p_old == jobs[t.id].oldLocalPath
             p_new == t.localPath
         IN /\ jobs'[t.id].state = "SYNCED"
            /\ p_old \notin DOMAIN nodeRows'
            /\ p_old \notin DOMAIN fileHashes'
            /\ p_old \notin DOMAIN fileState'
            /\ p_new \in DOMAIN nodeRows'
            /\ nodeRows'[p_new] = nodeRows[p_old]
            /\ IsDirectory(p_new) \/ p_new \in DOMAIN fileHashes'
            /\ p_new \in DOMAIN fileState']_vars

\* C17: the step that makes a RENAME, MOVE or DELETE of a directory SYNCED
\* leaves no row of FileHash, NodeMapping or FileState whose path lies
\* under the old directory path.
C17_DirectoryDescendants ==
  [][\A t \in BagToSet(tasks) :
       LET old == IF t.eventType = "DELETE" THEN t.localPath
                  ELSE jobs[t.id].oldLocalPath
       IN (/\ ExecDelete(t) \/ ExecRelocate(t)
           /\ ~dryRun
           /\ IsDirectory(old)) =>
            \A p \in DOMAIN nodeRows' \cup DOMAIN fileHashes' \cup DOMAIN fileState' :
              ~IsUnderPath(p, old)]_vars

\* The remote tree holds no object at the path: a parent folder is missing
\* or the node itself is.
AbsentRemotely(rp) == ~traverseRemotePath(remote, rp) \/ rp \notin DOMAIN remote

\* C18: a DELETE job for a path with no remote object becomes SYNCED
\* without any trash or delete call and leaves the remote tree as it is;
\* when no call fails such a job is never retried and never BLOCKED, and a
\* second DELETE of the same path has the same outcome.
C18_DeleteAbsent ==
  [][/\ \A t \in BagToSet(tasks) :
          (ExecDelete(t) /\ AbsentRemotely(t.localPath)) =>
            /\ calls' = {}
            /\ remote' = remote
            /\ ~dryRun => jobs'[t.id].state = "SYNCED"
            /\ jobs'[t.id].nRetries = jobs[t.id].nRetries
     /\ \A i \in Ids(jobs') :
          (mayFail = {} /\ jobs'[i].eventType = "DELETE") =>
            /\ jobs'[i].state # "BLOCKED"
            /\ jobs'[i].nRetries = 0]_vars

\* C18, its case: two DELETE jobs of the same path are SYNCED, the second
\* one run while the remote tree held nothing at the path, and no call
\* was made for it.
C18_Witness ==
  /\ ~dryRun
  /\ Len(jobs) = 2
  /\ \A i \in {1, 2} :
       /\ jobs[i].eventType = "DELETE"
       /\ jobs[i].localPath = FilePath
       /\ jobs[i].state = "SYNCED"
       /\ jobs[i].nRetries = 0
  /\ AbsentRemotely(FilePath)
  /\ calls = {}
  /\ tasks = EmptyBag

\* C19: in dry-run mode no step of any job kind makes a remote write call
\* or changes the remote tree, and no step writes a row of the state
\* store (NodeMapping, FileHash, FileState, the job queue).
C19_DryRunWritesNothing ==
  [][dryRun =>
       /\ calls' = {}
       /\ remote' = remote
       /\ nodeRows' = nodeRows
       /\ fileHashes' = fileHashes
       /\ fileState' = fileState
       /\ jobs' = jobs]_vars

C21_RenameDetected ==
  [][\A i, j \in DOMAIN changes' :
       LET p_old == changes'[i].name
           p_new == changes'[j].name
       IN (/\ nEvents' = nEvents + 1
           /\ ~changes'[i].exists
           /\ changes'[j].exists /\ changes'[j].new /\ changes'[j].type = "f"
           /\ p_old \in DOMAIN fileHashes
           /\ fileHashes[p_old] = Sha1(changes'[j].size)) =>
            /\ ~\E k \in Ids(jobs') :
                  jobs'[k].localPath = p_old /\ jobs'[k].eventType = "DELETE"
            /\ ~\E k \in Ids(jobs') :
                  jobs'[k].localPath = p_new /\ jobs'[k].eventType = "CREATE"
            /\ \E k \in Ids(jobs') :
                  /\ jobs'[k].localPath = p_new
                  /\ jobs'[k].eventType =
                       IF ParentOf(p_old) = ParentOf(p_new) THEN "RENAME"
                       ELSE "MOVE"
                  /\ jobs'[k].oldLocalPath = p_old]_vars

\* C22: a change event for a file on disk whose content hash equals the
\* stored FileHash (only its mtime changed) enqueues no job, and the
\* FileState row of the file becomes the new token.
C22_UnchangedContent ==
  [][\A p \in WatchFiles, stats \in FileStats :
       (/\ FsChange(p, stats)
        /\ p \in DOMAIN fileHashes
        /\ fileHashes[p] = Sha1(stats.size)) =>
         /\ jobs' = jobs
         /\ p \in DOMAIN fileState'
         /\ fileState'[p] = buildChangeToken(stats.mtime_ms, stats.size)]_vars

\* The changes of a batch that concern a path.
ChangesOf(batch, p) == {i \in DOMAIN batch : batch[i].name = p}

\* C23: the scan-diff pass emits at most one change for a path: exists and
\* new for an entry on disk without stored token, exists and not new for a
\* file on disk whose token differs from the stored one, not exists for a
\* stored path that is not on disk, and nothing for an entry whose token is
\* the stored one and for a directory with a stored token.
C23_ScanDiff ==
  [][(nEvents' = nEvents + 1 /\ disk' = disk) =>   \* a step of ScanDiff
       \A p \in WatchPaths :
         LET cs == ChangesOf(changes', p)
             onDisk == p \in DOMAIN disk
             stored == p \in DOMAIN fileState
         IN /\ Cardinality(cs) <= 1
            /\ (onDisk /\ ~stored) <=>
                 \E i \in cs : changes'[i].exists /\ changes'[i].new
            /\ (onDisk /\ stored /\ ~disk[p].isDirectory
                  /\ fileState[p] # buildChangeToken(disk[p].mtime_ms,
                                                     disk[p].size)) <=>
                 \E i \in cs : changes'[i].exists /\ ~changes'[i].new
            /\ (~onDisk /\ stored) <=> \E i \in cs : ~changes'[i].exists
            /\ \A i \in cs :
                 changes'[i].exists =>
                   /\ changes'[i].size = disk[p].size
                   /\ changes'[i].mtime_ms = disk[p].mtime_ms
                   /\ changes'[i].type = IF disk[p].isDirectory THEN "d"
                                         ELSE "f"]_vars

\* C23, its case: one scan has emitted a new file, a modified file and a
\* deleted path, and nothing for the directory, whose token differs from
\* the stored one.
C23_Witness ==
  /\ nEvents = 1
  /\ Len(changes) = 3
  /\ \E i, j, k \in DOMAIN changes :
       /\ changes[i].exists /\ changes[i].new
       /\ changes[j].exists /\ ~changes[j].new
       /\ ~changes[k].exists
  /\ DirPath \in DOMAIN disk \cap DOMAIN fileState
  /\ fileState[DirPath] # buildChangeToken(disk[DirPath].mtime_ms,
                                           disk[DirPath].size)
  /\ ChangesOf(changes, DirPath) = {}

\* C24: when a CREATE or UPDATE job of a file runs and the target remote
\* folder already holds a file of that name, the remote tree keeps its
\* nodes and no new node is uploaded: no call is made if the remote SHA-1
\* equals the local one up to the case of the letters, otherwise exactly a
\* revision upload to the existing node; in both cases the NodeMapping row
\* of the path gets the nodeUid of the existing node.
C24_ExistingRemoteFile ==
  [][\A t \in BagToSet(tasks) :
       (/\ ExecCreate(t)
        /\ ~dryRun
        /\ t.eventType \in {"CREATE", "UPDATE"}
        /\ ~IsDirectory(t.localPath)
        /\ t.localPath \in DOMAIN remote) =>
         LET uid == remote[t.localPath] IN
         /\ remote' = remote
         /\ calls' = IF /\ digests[uid] # "none"
                        /\ toLowerCase(digests[uid]) = toLowerCase(Sha1(LocalBytes))
                     THEN {}
                     ELSE {"upload_revision"}
         /\ digests'[uid] \in {digests[uid], Sha1(LocalBytes)}
         /\ toLowerCase(digests'[uid]) = Sha1(LocalBytes)
         /\ nodeRows'[t.localPath].nodeUid = uid]_vars

\* C24, its case: a job of d/f is SYNCED without any call, the remote file
\* carrying the digest of the local bytes in upper case, and the mapping
\* holds the node that existed.
C24_Witness ==
  /\ ~dryRun
  /\ tasks = EmptyBag
  /\ Len(jobs) = 1
  /\ jobs[1].eventType \in {"CREATE", "UPDATE"}
  /\ jobs[1].state = "SYNCED"
  /\ calls = {}
  /\ FilePath \in DOMAIN remote
  /\ digests[remote[FilePath]] = "DA4B"
  /\ FilePath \in DOMAIN nodeRows
  /\ nodeRows[FilePath].nodeUid = remote[FilePath]

\* C25: after a successful RENAME p -> q followed by a successful RENAME
\* q -> p the NodeMapping store holds the paths it held before the two
\* jobs, each with the nodeUid, parentNodeUid and isDirectory it had.
C25_RenameBack ==
  (/\ Len(jobs) = 2
   /\ \A i \in {1, 2} : jobs[i].eventType = "RENAME" /\ jobs[i].state = "SYNCED"
   /\ jobs[2].oldLocalPath = jobs[1].localPath
   /\ jobs[2].localPath = jobs[1].oldLocalPath) =>
    nodeRows = rowsAtStart

\* C25, its case: d/f was renamed to d/g and back, both jobs are SYNCED,
\* and the store holds the row of d/f.
C25_Witness ==
  /\ Len(jobs) = 2
  /\ \A i \in {1, 2} : jobs[i].eventType = "RENAME" /\ jobs[i].state = "SYNCED"
  /\ jobs[1].oldLocalPath = FilePath
  /\ jobs[2].oldLocalPath = jobs[1].localPath
  /\ jobs[2].localPath = FilePath
  /\ FilePath \in DOMAIN nodeRows
  /\ tasks = EmptyBag

\* C26: each signal placed in the queue is consumed at most once: under any
\* interleaving of consumeSignal calls of one or several processes at most
\* one call returns true for it.
C26_ConsumedOnce == \A id \in DOMAIN consumed : consumed[id] <= 1

\* C27: when authentication keeps failing with a connection failure the
\* retries are separated by waits of 1 s, 4 s, 16 s, 64 s and 256 s, in
\* that order, before startup gives up; an error of any other kind ends
\* startup at once, without a retry.
C27_Backoff ==
  /\ []((authPc = "failed" /\ IncludesFetchFailed(lastError)) =>
          timers = <<1000, 4000, 16000, 64000, 256000>>)
  /\ [][\A message \in AuthErrors :
          (AuthThrows(message) /\ ~IncludesFetchFailed(message)) =>
            (authPc' = "failed" /\ timers' = timers)]_vars

\* C28: in a DELETE_AND_CREATE job the create of the new path starts only
\* after the remote delete of the old path has returned (success or not
\* found), so nothing is left at the old path and its rows are gone; the
\* job becomes SYNCED only in the transaction of the create step, after
\* the rows of the delete step were removed and together with the row of
\* the new node; when the create step fails the job is not SYNCED: it is
\* PENDING for a retry or BLOCKED.
C28_DeleteThenCreate ==
  [][/\ \A t \in BagToSet(tasks) :
          (ExecCreate(t) /\ t.eventType = "DELETE_AND_CREATE") =>
            /\ t.pc = "create"
            /\ AbsentRemotely(OldPathOf(jobs[t.id]))
            /\ ~dryRun => /\ OldPathOf(jobs[t.id]) \notin DOMAIN nodeRows
                          /\ OldPathOf(jobs[t.id]) \notin DOMAIN fileHashes
     /\ \A i \in Ids(jobs') :
          (/\ jobs'[i].eventType = "DELETE_AND_CREATE"
           /\ jobs'[i].state = "SYNCED"
           /\ i \in Ids(jobs) => jobs[i].state # "SYNCED") =>
            /\ \E t \in BagToSet(tasks) : t.id = i /\ t.pc = "create"
            /\ jobs'[i].localPath \in DOMAIN nodeRows'
            /\ jobs'[i].localPath \in DOMAIN remote'
     /\ \A t \in BagToSet(tasks), c \in ErrorCategory :
          (ExecFails(t, c) /\ t.eventType = "DELETE_AND_CREATE") =>
            jobs'[t.id].state \in {"PENDING", "BLOCKED"}]_vars

\* C28, its case: a DELETE_AND_CREATE job is SYNCED after its task trashed
\* and deleted the old node and uploaded the file anew.
C28_Witness ==
  \E i \in Ids(jobs) :
    /\ jobs[i].eventType = "DELETE_AND_CREATE"
    /\ jobs[i].state = "SYNCED"
    /\ {"trash", "delete", "upload_file"} \subseteq calls
    /\ jobs[i].localPath \in DOMAIN nodeRows
    /\ tasks = EmptyBag

\* C29: the permanent delete is issued only after the trash step returned
\* ok or reported that the node is already trashed; when the trash step
\* fails for any other reason no delete call is made and deleteNode
\* reports a failure with existed = true.
C29_TrashBeforeDelete ==
  [][\A error \in NodeErrors \cup {NoError}, thrown \in BOOLEAN :
       TrashReturns(error, thrown) =>
         IF error \in {NoError, AlreadyTrashedError}
         THEN delPc' = "delete"
         ELSE /\ delPc' = "done"
              /\ delResult' = DeleteOperationResult(FALSE, TRUE)
              /\ "delete" \notin calls']_vars

\* The rows of a table whose path begins with the directory followed by "/".
BeginsWith(p, prefix) ==
  Len(p) >= Len(prefix) /\ SubSeq(p, 1, Len(prefix)) = prefix
Under(m, dir) == {p \in DOMAIN m : BeginsWith(p, dir \o <<"/">>)}

\* The table with the rows under the directory rewritten: newDir, "/", and
\* the remainder of the path after dir and "/".
Rewritten(m, dir, newDir) ==
  [q \in (DOMAIN m \ Under(m, dir))
         \cup {newDir \o <<"/">> \o SubSeq(p, Len(dir) + 2, Len(p)) :
                 p \in Under(m, dir)} |->
     IF q \in DOMAIN m \ Under(m, dir) THEN m[q]
     ELSE m[CHOOSE p \in Under(m, dir) :
              q = newDir \o <<"/">> \o SubSeq(p, Len(dir) + 2, Len(p))]]

\* C30: a directory-prefix delete or rewrite for a directory D changes
\* exactly the rows whose localPath begins with D followed by "/"; every
\* other row, the rows of sibling directories that differ from D only
\* where D has _ or % included, is left as it is, and a rewritten row gets
\* the path newDir + "/" + its remainder after D + "/".
C30_PrefixExact ==
  [][\A dir \in LikeDirs :
       /\ DeleteMappingsUnder(dir) =>
            nodeRows' = Drop(nodeRows, Under(nodeRows, dir))
       /\ DeleteHashesUnder(dir) =>
            fileHashes' = Drop(fileHashes, Under(fileHashes, dir))
       /\ (UpdateMappingsUnder(dir, Str_b) /\ ~dryRun) =>
            nodeRows' = Rewritten(nodeRows, dir, Str_b)
       /\ (UpdateHashesUnder(dir, Str_b) /\ ~dryRun) =>
            fileHashes' = Rewritten(fileHashes, dir, Str_b)]_vars

\* path.join of a remote root, a directory name and a name.
JoinRemote(remoteRoot, dirName, name) ==
  IF remoteRoot = << >> THEN dirName \o <<"/">> \o name
  ELSE remoteRoot \o <<"/">> \o dirName \o <<"/">> \o name

\* C31: the remote path of a job for a change under watch root W is
\* join(remoteRoot, basename(W), name), remoteRoot being the remote_root of
\* the sync dir whose source_path is W, also when the source_path of
\* another sync dir is a string prefix of W.
C31_RemotePath ==
  [][\A i \in 1..MaxSyncDirs, name \in {<<"f">>, <<"g">>} :
       RouteChange(i, name) =>
         routed'.remotePath =
           JoinRemote(syncDirs[i].remote_root,
                      basename(syncDirs[i].source_path), name)]_vars

\* C32: a path that matches an exclusion pattern never produces a
\* FileChange from the scan-diff pass, neither as new, modified nor
\* deleted, also when it still has a FileState row from before the
\* pattern was configured.
C32_ExcludedSilent ==
  [][ScanDiff => \A k \in DOMAIN changes' : changes'[k].name \notin excluded]_vars

\* C33: when CREATE jobs whose remote paths share an ancestor folder that
\* does not exist yet run side by side in the pool, exactly one folder of
\* that name exists under its parent after all of them completed, and no
\* job creates a folder whose name exists in that parent already.
C33_OneFolder ==
  /\ []((\A j \in PoolTasks : walk[j].pc = "done") =>
          \A f, g \in folders :
            (f.parent = g.parent /\ f.name = g.name) => f = g)
  /\ [][\A f \in folders' \ folders :
          FoldersNamed(folders, f.parent, f.name) = {}]_vars

\* C34: when runOneShotSync returns normally, no job is in PROCESSING and
\* no PENDING job with retryAt <= now remains, the jobs left over or
\* recovered from an earlier run included, also when the scan of this run
\* finds no change; drainQueue ends once no ready job and no active task
\* remain.
C34_OneShotDrains ==
  [][/\ (ScanDone /\ proc' = "exited") =>
          /\ ReadyJobs(jobs') = {}
          /\ \A i \in Ids(jobs') : jobs'[i].state # "PROCESSING"
     /\ (/\ DrainIter
         /\ proc' = "exited"
         /\ DrainFill(processAvailableJobs(CurrentPool, syncConcurrency)).thrown = {}) =>
          /\ ReadyJobs(jobs') = {}
          /\ \A i \in Ids(jobs') : jobs'[i].state # "PROCESSING"]_vars

\* -------------------------------------------------------------------------
\* Watch mode over time (engine.ts, startJobProcessorLoop).  One unit of the
\* clock is one poll interval, JOB_POLL_INTERVAL_MS: processLoop runs, and
\* re-arms its timer, once per unit.
\* -------------------------------------------------------------------------

MaxLiveJobs == 3
LivePaths == <<"a", "b", "c">>

\* The errors the remote answers with: a revision conflict, or a refusal.
LiveFailures == {"REUPLOAD_NEEDED", "PERMANENT"}

\* The queue a start of watch mode finds: PENDING rows of distinct paths,
\* ready now.
LiveQueue(n) == [i \in 1..n |-> NewJob("CREATE", LivePaths[i], TRUE)]

\* One poll interval passes: every retryAt in the future comes one
\* interval closer.
PollInterval(js) ==
  [i \in Ids(js) |->
     IF js[i].retryAt > 0 THEN [js[i] EXCEPT !.retryAt = @ - 1] ELSE js[i]]

\* The timer of processLoop fires: processLoop runs and sets the timer for
\* the next interval.
PollTick ==
  /\ proc = "watch"
  /\ LET st == processLoop(CurrentPool, syncConcurrency, paused)
     IN SetPool([st EXCEPT !.jobs = PollInterval(@)])
  /\ note' = Skipped
  /\ UNCHANGED <<exec, nodeMapping, syncConcurrency, proc, drainPc, totalChanges,
                 config, counters, ghosts>>

\* The task of job i moves on: a step of DELETE_AND_CREATE, or its outcome.
TaskEnds(i) ==
  \E t \in BagToSet(tasks) :
    /\ t.id = i
    /\ \/ TaskDeleteStep(t)
       \/ TaskSucceeds(t)
       \/ \E c \in LiveFailures : TaskFails(t, c)

\* runWatchMode has recovered the queue and set the concurrency, here the
\* smallest pool, K = 1; the subscriptions are being set up.
InitLive ==
  /\ InitAux
  /\ \E n \in 1..MaxLiveJobs : jobs = LiveQueue(n)
  /\ nodeMapping = {}
  /\ completed = {}
  /\ owed = {}
  /\ tasks = EmptyBag
  /\ activeTasks = {}
  /\ cfgK = 1
  /\ syncConcurrency = setSyncConcurrency(cfgK)
  /\ proc = "setup"
  /\ drainPc = "loop"
  /\ totalChanges = FALSE
  /\ paused = FALSE
  /\ nEvents = 0
  /\ nDirChanges = 0
  /\ note = "none"
  /\ nodeRows = NoRows
  /\ fileHashes = NoRows
  /\ fileState = NoRows
  /\ remote = NoRows
  /\ digests = NoRows
  /\ calls = {}
  /\ dryRun = FALSE
  /\ mayFail = Failures
  /\ nFailed = 0
  /\ audit = FALSE

NextLive ==
  \/ WatchReady
  \/ PollTick
  \/ \E i \in 1..MaxLiveJobs : TaskEnds(i)
  \/ StopSignal

\* The timer is re-armed at every run of processLoop, and every running
\* task finishes.
LiveFair ==
  /\ WF_vars(WatchReady)
  /\ WF_vars(PollTick)
  /\ \A i \in 1..MaxLiveJobs : WF_vars(TaskEnds(i))

SpecLive == InitLive /\ [][NextLive]_vars /\ LiveFair

\* C35: in watch mode, while the engine is neither paused nor stopped and
\* K >= 1, every PENDING job with retryAt <= now is eventually claimed,
\* given that every running task finishes; no ready job waits forever
\* behind other jobs or behind jobs that keep being retried.
C35_ReadyClaimed ==
  \A i \in 1..MaxLiveJobs :
    (i \in ReadyJobs(jobs) /\ ~Stopped /\ ~paused /\ syncConcurrency >= 1)
      ~> ((i \in Ids(jobs) /\ jobs[i].state = "PROCESSING") \/ Stopped \/ paused)

\* -------------------------------------------------------------------------
\* state.json shared by the sync process and the stop command (state.ts,
\* signals.ts, cli/stop.ts, index.ts)
\* -------------------------------------------------------------------------

MaxClock == 2

\* appState as loadState returns it for a state file at the current
\* version: the file as it is.
LoadedState(file) == [loaded |-> TRUE, clocks |-> file.clocks, signals |-> file.signals]

\* saveState(data): the whole of data replaces the file.
saveState(data) == [clocks |-> data.clocks, signals |-> data.signals]

\* includes(signal)
hasSignal(file, signal) == \E i \in 1..Len(file.signals) : file.signals[i] = signal

\* indexOf(signal) on an array of strings; 0 when it is absent.
indexOfTag(q, signal) ==
  IF \E i \in 1..Len(q) : q[i] = signal
  THEN CHOOSE i \in 1..Len(q) : q[i] = signal /\ \A j \in 1..(i - 1) : q[j] # signal
  ELSE 0

\* consumeSignal(signal) on the file read: splice and write back.
consumeSignal(file, signal) ==
  IF indexOfTag(file.signals, signal) = 0
  THEN file
  ELSE [file EXCEPT !.signals = splice(@, indexOfTag(file.signals, signal))]

sfRest == <<rest, notSf>>

\* A sync process starts: the module state.ts is loaded, appState is what
\* loadState reads.
SyncStarts ==
  /\ ~appState.loaded
  /\ appState' = LoadedState(stateFile)
  /\ UNCHANGED <<sfRest, stateFile, stopPc>>

\* A subscription notification carries a clock: the handler stores it in
\* appState and saves appState.
ClockUpdate(resolvedRoot) ==
  /\ appState.loaded
  /\ appState.clocks[resolvedRoot] < MaxClock
  /\ appState' = [appState EXCEPT !.clocks[resolvedRoot] = @ + 1]
  /\ stateFile' = saveState(appState')
  /\ UNCHANGED <<sfRest, stopPc>>

\* stopCommand up to its first wait: a sync process runs; the command's own
\* appState is loaded, the signal pushed and the state saved.
StopSends ==
  /\ stopPc = "idle"
  /\ appState.loaded
  /\ Len(stateFile.signals) < MaxSignals
  /\ LET own == LoadedState(stateFile)
     IN stateFile' = saveState([own EXCEPT !.signals = Append(@, "stop")])
  /\ stopPc' = "waiting"
  /\ UNCHANGED <<sfRest, appState>>

\* The sync process finds the stop signal in the file, consumes it and
\* exits.
SyncConsumes ==
  /\ appState.loaded
  /\ hasSignal(stateFile, "stop")
  /\ stateFile' = consumeSignal(stateFile, "stop")
  /\ appState' = NoState
  /\ UNCHANGED <<sfRest, stopPc>>

\* waitForExit sees the signal gone: the command reports the stop.
StopSeesExit ==
  /\ stopPc = "waiting"
  /\ ~hasSignal(stateFile, "stop")
  /\ stopPc' = "idle"
  /\ UNCHANGED <<sfRest, stateFile, appState>>

\* waitForExit after the timeout: the command consumes its own signal.
StopTimesOut ==
  /\ stopPc = "waiting"
  /\ hasSignal(stateFile, "stop")
  /\ stateFile' = consumeSignal(stateFile, "stop")
  /\ stopPc' = "idle"
  /\ UNCHANGED <<sfRest, appState>>

\* The sync process is killed.
SyncKilled ==
  /\ appState.loaded
  /\ appState' = NoState
  /\ UNCHANGED <<sfRest, stateFile, stopPc>>

NextStateFile ==
  \/ SyncStarts
  \/ \E r \in WatchRoots : ClockUpdate(r)
  \/ StopSends
  \/ SyncConsumes
  \/ StopSeesExit
  \/ StopTimesOut
  \/ SyncKilled
InitStateFile == InitRest /\ InitSide
SpecStateFile == InitStateFile /\ [][NextStateFile]_vars

\* C36: a stop signal sent by the stop command while a sync process runs
\* stays in the signal queue until that sync process consumes it: no save
\* of the sync process's own state (a clock update) erases it, and no other
\* process removes it first.
C36_StopStays ==
  [][(/\ hasSignal(stateFile, "stop")
      /\ appState.loaded
      /\ Len(stateFile'.signals) < Len(stateFile.signals)) => SyncConsumes]_vars

\* -------------------------------------------------------------------------
\* Watch subscriptions (watcher.ts, setupWatchSubscriptions and
\* teardownWatchSubscriptions; engine.ts, the sync_dirs change handler)
\* -------------------------------------------------------------------------

MaxSetups == 3

wsRest == <<rest, notWs>>

\* chokidar.watch(watchDir, ...) of a call.
NewWatcher(call, dir) == [call |-> call, dir |-> dir, closed |-> FALSE]

\* The entries of activeWatchers a teardown has not visited yet.
Unvisited(c) == {w \in activeWatchers : w \notin setups[c].visited}

\* activeWatchers.set(watchDir, watcher) for every directory of the config:
\* an entry of the same directory is replaced.
SetWatchers(map, call, dirs) ==
  {w \in map : w.dir \notin dirs} \cup {[call |-> call, dir |-> d] : d \in dirs}

\* The loop over config.sync_dirs: one watcher per directory, registered in
\* activeWatchers.
CreateWatchers(c) ==
  /\ watchers' = watchers \cup {NewWatcher(c, d) : d \in setups[c].dirs}
  /\ activeWatchers' = SetWatchers(activeWatchers, c, setups[c].dirs)

\* watcher.close() of the entry w.
Close(created, w) ==
  {IF x.call = w.call /\ x.dir = w.dir THEN [x EXCEPT !.closed = TRUE] ELSE x :
     x \in created}

\* setupWatchSubscriptions is called, at the start of watch mode or by the
\* sync_dirs change handler: teardown begins.  With no entry in
\* activeWatchers teardown returns at once and the watchers are created
\* without any other callback in between; otherwise the first close is
\* awaited.  A call whose teardown has just returned resumes before any new
\* configuration event is handled.
SetupStarts(dirs) ==
  /\ Len(setups) < MaxSetups
  /\ \A c \in DOMAIN setups : setups[c].pc # "create"
  /\ dirs # lastConfig
  /\ lastConfig' = dirs
  /\ LET c == Len(setups) + 1 IN
     IF activeWatchers = {}
     THEN /\ setups' = Append(setups, [pc |-> "done", dirs |-> dirs, visited |-> {}])
          /\ watchers' = watchers \cup {NewWatcher(c, d) : d \in dirs}
          /\ activeWatchers' = SetWatchers(activeWatchers, c, dirs)
     ELSE LET w == CHOOSE x \in activeWatchers : TRUE IN
          /\ setups' = Append(setups, [pc |-> "teardown", dirs |-> dirs,
                                       visited |-> {w}])
          /\ watchers' = Close(watchers, w)
          /\ UNCHANGED activeWatchers
  /\ UNCHANGED wsRest

\* A close awaited by teardown resolves and the loop goes on to the next
\* entry of the map.
TeardownNext(c) ==
  /\ c \in DOMAIN setups
  /\ setups[c].pc = "teardown"
  /\ Unvisited(c) # {}
  /\ LET w == CHOOSE x \in Unvisited(c) : TRUE IN
     /\ setups' = [setups EXCEPT ![c].visited = @ \cup {w}]
     /\ watchers' = Close(watchers, w)
  /\ UNCHANGED <<wsRest, activeWatchers, lastConfig>>

\* The last close resolves: activeWatchers.clear(), and teardown returns.
TeardownEnds(c) ==
  /\ c \in DOMAIN setups
  /\ setups[c].pc = "teardown"
  /\ Unvisited(c) = {}
  /\ activeWatchers' = {}
  /\ setups' = [setups EXCEPT ![c].pc = "create"]
  /\ UNCHANGED <<wsRest, watchers, lastConfig>>

\* setupWatchSubscriptions resumes after teardown and creates its watchers.
SetupCreates(c) ==
  /\ c \in DOMAIN setups
  /\ setups[c].pc = "create"
  /\ CreateWatchers(c)
  /\ setups' = [setups EXCEPT ![c].pc = "done"]
  /\ UNCHANGED <<wsRest, lastConfig>>

NextWatchers ==
  \/ \E dirs \in (SUBSET WatchRoots) \ {{}} : SetupStarts(dirs)
  \/ \E c \in 1..MaxSetups : TeardownNext(c)
  \/ \E c \in 1..MaxSetups : TeardownEnds(c)
  \/ \E c \in 1..MaxSetups : SetupCreates(c)
InitWatchers == InitRest /\ InitSide
SpecWatchers == InitWatchers /\ [][NextWatchers]_vars

\* The watchers that still deliver events.
LiveWatchers == {w \in watchers : ~w.closed}

\* C37: once every call of setupWatchSubscriptions has completed, two
\* overlapping calls included, every configured sync dir has exactly one
\* live watcher, and no watcher created by an earlier call still delivers
\* events.
C37_OneWatcherPerDir ==
  (setups # << >> /\ \A c \in 1..Len(setups) : setups[c].pc = "done") =>
    /\ \A d \in lastConfig : Cardinality({w \in LiveWatchers : w.dir = d}) = 1
    /\ \A w \in LiveWatchers : w.call = Len(setups)

\* -------------------------------------------------------------------------
\* Start command (cli/start.ts and its later form in cli/auth.ts): the run
\* lock and the exit code
\* -------------------------------------------------------------------------

MaxRuns == 3
StartSources == {"start.ts", "auth.ts"}
EndSignals == {"stop", "SIGINT"}

runRest == <<rest, notRun>>

\* process.exit(code): the process ends as it is; what a pending cleanup has
\* not done yet is never done.
ProcessExit(cmd, code, cause) ==
  [cmd EXCEPT !.pc = "exited", !.cleanup = "none", !.thenExit = -1,
              !.cause = IF cmd.cause = "none" THEN cause ELSE cmd.cause]

\* cleanup() of start.ts: stopSignalListener and releaseRunLock, at once.
\* cleanup() of auth.ts: stopDashboard is awaited first; the rest runs when
\* it resolves.
CleanupIsSync(cmd) == cmd.source = "start.ts"

\* startCommand down to the await of the authentication, once the lock is
\* acquired; run counts the starts.  (A start that finds the lock held
\* exits with 1 without touching it.)
StartCommand(source, watch) ==
  /\ startCmd.pc \in {"idle", "exited"}
  /\ startCmd.run < MaxRuns
  /\ ~runLock
  /\ startCmd' = [pc |-> "auth", source |-> source, watch |-> watch,
                  handlers |-> (source = "auth.ts"), cleanup |-> "none",
                  thenExit |-> -1, cause |-> "none", run |-> startCmd.run + 1]
  /\ runLock' = TRUE
  /\ exitCode' = -1
  /\ UNCHANGED runRest

\* The authentication throws: the catch block.
AuthenticationFails ==
  /\ startCmd.pc = "auth"
  /\ runLock' = IF CleanupIsSync(startCmd) THEN FALSE ELSE runLock
  /\ startCmd' = ProcessExit(startCmd, 1, "authentication failure")
  /\ exitCode' = 1
  /\ UNCHANGED runRest

\* The authentication returns a client; start.ts registers its handlers
\* now; the sync runs.
AuthenticationSucceeds ==
  /\ startCmd.pc = "auth"
  /\ startCmd' = [startCmd EXCEPT !.pc = "sync", !.handlers = TRUE]
  /\ UNCHANGED <<runRest, runLock, exitCode>>

\* runWatchMode or runOneShotSync throws: the catch block.
SyncFails ==
  /\ startCmd.pc = "sync"
  /\ runLock' = IF CleanupIsSync(startCmd) THEN FALSE ELSE runLock
  /\ startCmd' = ProcessExit(startCmd, 1, "sync failure")
  /\ exitCode' = 1
  /\ UNCHANGED runRest

\* The sync returns: the final cleanup(); the process ends with 0 once
\* nothing is left to run.
SyncReturns ==
  /\ startCmd.pc = "sync"
  /\ IF CleanupIsSync(startCmd)
     THEN /\ runLock' = FALSE
          /\ startCmd' = ProcessExit(startCmd, 0, "normal completion")
          /\ exitCode' = 0
     ELSE /\ startCmd' = [startCmd EXCEPT
                            !.pc = "returned", !.cleanup = "pending",
                            !.cause = IF @ = "none" THEN "normal completion" ELSE @]
          /\ UNCHANGED <<runLock, exitCode>>
  /\ UNCHANGED runRest

\* The stop signal is dispatched or SIGINT arrives.  With the handler
\* registered: cleanup, then process.exit(0).  SIGINT without a handler
\* ends the process at once (128 + 2); a stop signal without a handler has
\* no effect.
EndSignal(signal) ==
  /\ startCmd.pc \in {"auth", "sync"}
  /\ startCmd.cause = "none"
  /\ startCmd.handlers \/ signal = "SIGINT"
  /\ IF ~startCmd.handlers
     THEN /\ startCmd' = ProcessExit(startCmd, 130, signal)
          /\ exitCode' = 130
          /\ UNCHANGED runLock
     ELSE IF CleanupIsSync(startCmd)
     THEN /\ runLock' = FALSE
          /\ startCmd' = ProcessExit(startCmd, 0, signal)
          /\ exitCode' = 0
     ELSE /\ startCmd' = [startCmd EXCEPT !.cleanup = "pending", !.thenExit = 0,
                                          !.cause = signal]
          /\ UNCHANGED <<runLock, exitCode>>
  /\ UNCHANGED runRest

\* stopDashboard resolves: the rest of the async cleanup runs, and the
\* process exits if the handler asked for it or if startCommand has
\* returned.
CleanupResumes ==
  /\ startCmd.cleanup = "pending"
  /\ runLock' = FALSE
  /\ IF startCmd.thenExit # -1 \/ startCmd.pc = "returned"
     THEN /\ startCmd' = ProcessExit(startCmd, 0, startCmd.cause)
          /\ exitCode' = 0
     ELSE /\ startCmd' = [startCmd EXCEPT !.cleanup = "none"]
          /\ UNCHANGED exitCode
  /\ UNCHANGED runRest

\* The lock of a process that is gone is cleared by hand (reset).
LockCleared ==
  /\ startCmd.pc = "exited"
  /\ runLock
  /\ runLock' = FALSE
  /\ startCmd' = [startCmd EXCEPT !.pc = "idle"]
  /\ UNCHANGED <<runRest, exitCode>>

NextRun ==
  \/ \E source \in StartSources, watch \in BOOLEAN : StartCommand(source, watch)
  \/ AuthenticationFails
  \/ AuthenticationSucceeds
  \/ SyncFails
  \/ SyncReturns
  \/ \E signal \in EndSignals : EndSignal(signal)
  \/ CleanupResumes
  \/ LockCleared
InitRunLock == InitRest /\ InitSide
SpecRun == InitRunLock /\ [][NextRun]_vars

CleanStops == {"stop", "SIGINT", "normal completion"}

\* C38: on every path by which the start command ends after it acquired
\* the run lock (authentication failure, sync failure, stop signal, SIGINT,
\* normal completion) the lock is released before the process exits, and
\* the exit code is 0 for a clean stop and 1 for a startup failure.
C38_LockReleased ==
  [][(startCmd.pc # "exited" /\ startCmd'.pc = "exited") =>
       /\ ~runLock'
       /\ startCmd'.cause \in CleanStops => exitCode' = 0
       /\ startCmd'.cause = "authentication failure" => exitCode' = 1]_vars

\* -------------------------------------------------------------------------
\* Loading and migrating state.json (state.ts, state_migrations/1_2.ts)
\* -------------------------------------------------------------------------

STATE_VERSION == 2

\* The source versions MIGRATIONS has a function for.
MIGRATIONS == {1}

\* 1_2.ts, migrate: the state with version 2 and an empty signals array.
migrate(state) ==
  [state EXCEPT !.hasVersion = TRUE, !.version = 2,
                !.hasSignals = TRUE, !.signals = << >>]

\* (state.version as number) || 1
VersionOr1(state) ==
  IF state.hasVersion /\ state.version # 0 THEN state.version ELSE 1

\* The while loop of runMigrations; fuel bounds the iterations the model
\* follows, and a loop that runs out of it is reported as not finished.
RECURSIVE MigrationLoop(_, _, _)
MigrationLoop(state, currentVersion, fuel) ==
  IF ~(currentVersion < STATE_VERSION) \/ currentVersion \notin MIGRATIONS
  THEN [state |-> state, finished |-> TRUE]
  ELSE IF fuel = 0
  THEN [state |-> state, finished |-> FALSE]
  ELSE MigrationLoop(migrate(state), migrate(state).version, fuel - 1)

MaxMigrations == 3

runMigrations(state) == MigrationLoop(state, VersionOr1(state), MaxMigrations)

\* rawState.version < STATE_VERSION; a missing version compares false.
NeedsMigration(raw) == raw.hasVersion /\ raw.version < STATE_VERSION

\* loadState on a file that exists and parses.
loadState(raw) ==
  IF NeedsMigration(raw) THEN runMigrations(raw).state ELSE raw

\* The readable state files: written at version 1 (clocks only), at the
\* current version, or before the version field existed.
ClockTables == [WatchRoots -> 0..MaxClock]
ReadableFiles ==
  {StateObject(TRUE, 1, c, FALSE, << >>) : c \in ClockTables}
    \cup {StateObject(TRUE, STATE_VERSION, c, TRUE, q) :
            c \in ClockTables, q \in {<< >>, <<"stop">>}}
    \cup {StateObject(FALSE, 0, c, FALSE, << >>) : c \in ClockTables}

ldRest == <<rest, notLd>>

\* A file is found on disk by the installation.
FileWritten(raw) ==
  /\ rawState = NoFile
  /\ ~loadedState.loaded
  /\ rawState' = raw
  /\ UNCHANGED <<ldRest, loadedState>>

\* A process starts and state.ts is loaded: loadState, with the save of a
\* migrated state.
LoadState ==
  /\ rawState # NoFile
  /\ ~loadedState.loaded
  /\ loadedState' = [loaded |-> TRUE, state |-> loadState(rawState),
                     finished |-> (NeedsMigration(rawState) => runMigrations(rawState).finished)]
  /\ rawState' = IF NeedsMigration(rawState) THEN loadState(rawState) ELSE rawState
  /\ UNCHANGED ldRest

\* The process stores a clock and saves its state.
ClockSaved(resolvedRoot) ==
  /\ loadedState.loaded
  /\ loadedState.state.clocks[resolvedRoot] < MaxClock
  /\ loadedState' = [loadedState EXCEPT !.state.clocks[resolvedRoot] = @ + 1]
  /\ rawState' = loadedState'.state
  /\ UNCHANGED ldRest

\* Another process (the stop command) loads the state, pushes a signal and
\* saves; without a signals array the push throws and nothing is saved.
SignalPushed ==
  /\ rawState # NoFile
  /\ loadState(rawState).hasSignals
  /\ Len(loadState(rawState).signals) < MaxSignals
  /\ rawState' = [loadState(rawState) EXCEPT !.signals = Append(@, "stop")]
  /\ UNCHANGED <<ldRest, loadedState>>

\* The process ends.
ProcessEnds ==
  /\ loadedState.loaded
  /\ loadedState' = NotLoaded
  /\ UNCHANGED <<ldRest, rawState>>

NextLoad ==
  \/ \E raw \in ReadableFiles : FileWritten(raw)
  \/ LoadState
  \/ \E r \in WatchRoots : ClockSaved(r)
  \/ SignalPushed
  \/ ProcessEnds
InitLoad == InitRest /\ InitSide
SpecLoad == InitLoad /\ [][NextLoad]_vars

\* C39: for every readable state file, at version 1, at the current
\* version or without a version field, loadState returns a state whose
\* version is STATE_VERSION and which has a signals array, with the stored
\* clocks preserved; migrations only increase the version and the
\* migration loop terminates.
C39_LoadedCurrent ==
  [][LoadState =>
       /\ loadedState'.state.hasVersion
       /\ loadedState'.state.version = STATE_VERSION
       /\ loadedState'.state.hasSignals
       /\ loadedState'.state.clocks = rawState.clocks
       /\ loadedState'.finished
       /\ rawState.hasVersion => loadedState'.state.version >= rawState.version]_vars
====
